---- MODULE Spec2Model ----
(***************************************************************************)
(* Model of the dynamic service-composition and configuration engine of    *)
(* the API gateway: configs/router_loader.py (DynamicRouterLoader),        *)
(* configs/config_manager.py (DynamicConfigLoader) and main.py.            *)
(*                                                                         *)
(* Python strings are sequences of one-character strings, so that the      *)
(* substring test of the endpoint filter and the parsing and formatting of *)
(* configuration values are computed rather than assumed.                  *)
(***************************************************************************)
EXTENDS Integers, Sequences, FiniteSets, TLC

VARIABLES
    \* ---- DynamicRouterLoader (router_loader.py) ----
    loaded_routers,   \* dict service name -> handler object
    failed_loads,     \* dict service name -> failure cause
    router_configs,   \* list of the descriptors mounted so far
    app_routers,      \* the transport: what app.include_router has attached
    original_routes,  \* routes of the collection exported by the unit loaded last
    pc,               \* "idle", or "load_all" while load_all_routers iterates
    configs,          \* load_all_routers: the descriptor list being processed
    idx,              \* load_all_routers: position of the next descriptor
    results,          \* load_all_routers: the result map built so far
    attempts,         \* load_all_routers: descriptors load_router was called on
    loads,            \* number of load attempts made so far
    last,             \* what the last finished operation was and returned
    \* ---- _filter_router_endpoints called on its own ----
    f_routes,         \* the original collection handed to the filter
    f_config,         \* the descriptor handed to the filter
    f_result,         \* what the call left behind
    \* ---- DynamicConfigLoader (config_manager.py) ----
    config_file,      \* the file on disk: service -> key -> typed value
    config_data,      \* self.config_data["services"], as loaded and since changed
    environ,          \* os.environ: variable name -> string
    c_last,           \* what the last configuration read returned
    \* ---- the rest of the file, UnifiedConfigManager, APIGateway (main.py) ----
    file_state,       \* the file on disk: "ok", "missing", "unreadable" or "invalid" (no YAML)
    gateway_file,     \* the file on disk: its "gateway" section, if it has one
    gateway_data,     \* self.config_data["gateway"], as loaded and since changed
    gateway_config,   \* APIGateway.gateway_config: the dict it refers to
    injected_configs, \* ConfigInjector.injected_configs: name -> dict referred to
    service_settings, \* UnifiedConfigManager.service_settings: name -> dict
    target_env,       \* a dict of the caller's handed to inject_* as target_env
    operator_env,     \* names of the variables the operator has set in os.environ
    calls,            \* number of operations of the manager or gateway so far
    m_last,           \* what the last operation of the manager or gateway returned
    \* ---- a second thread of the host ----
    r_pre,            \* reload_router in progress: the service's status when it began
    seen              \* what the last get_services_status returned

vars == << loaded_routers, failed_loads, router_configs, app_routers,
           original_routes, pc, configs, idx, results, attempts, loads, last,
           f_routes, f_config, f_result, config_file, config_data, environ,
           c_last, file_state, gateway_file, gateway_data, gateway_config,
           injected_configs, service_settings, target_env, operator_env,
           calls, m_last, r_pre, seen >>

loaderVars == << loaded_routers, failed_loads, router_configs, app_routers,
                 original_routes, pc, configs, idx, results, attempts, loads,
                 last >>
filterVars == << f_routes, f_config, f_result >>
configVars == << config_file, config_data, environ, c_last >>
managerVars == << file_state, gateway_file, gateway_data, gateway_config,
                  injected_configs, service_settings, target_env, operator_env,
                  calls, m_last >>
readVars == << r_pre, seen >>

(***************************************************************************)
(* Bounds of the model.                                                    *)
(***************************************************************************)
MaxRoutes == 3     \* longest route collection handed to the filter
MaxLoads == 2      \* load attempts in one run, and longest descriptor list
MaxCalls == 3      \* operations of the manager or gateway in one run

(***************************************************************************)
(* Python values shared by the parts of the model.                         *)
(***************************************************************************)
\* Optional[Set[str]]: None, or a set of strings.
NoneSet == [is_none |-> TRUE, set |-> {}]

Some(S) == [is_none |-> FALSE, set |-> S]

\* Only None is falsy.
Truthy_when_present(opt) == ~opt.is_none

\* bool(x) of an Optional[Set[str]]: None and the empty set are falsy.
Truthy(opt) == ~opt.is_none /\ opt.set # {}

\* A dict as a function whose domain is the key set: d[k] = v.
DictSet(d, k, v) == [x \in (DOMAIN d) \cup {k} |-> IF x = k THEN v ELSE d[x]]

\* del d[k]
DictDel(d, k) == [x \in (DOMAIN d) \ {k} |-> d[x]]

EmptyDict == [x \in {} |-> x]

\* The value of a one-element set: { body : x \in { e } } computes e once and
\* names it x in body.
Only(S) == CHOOSE v \in S : TRUE

\* The elements of a list.
Range(seq) == { seq[i] : i \in 1..Len(seq) }

\* Python's `a in b` for two strings: a is a contiguous part of b.
IsSubstring(a, b) ==
    \E i \in 1..(Len(b) - Len(a) + 1) : SubSeq(b, i, i + Len(a) - 1) = a

(***************************************************************************)
(* The strings of the endpoint filter.                                     *)
(***************************************************************************)
P_users == << "/", "u", "s", "e", "r", "s" >>
P_user_id == << "/", "u", "s", "e", "r", "s", "/", "{", "i", "d", "}" >>
P_admin == << "/", "a", "d", "m", "i", "n" >>
P_a == << "/", "a" >>
N_get_users == << "g", "e", "t", "_", "u", "s", "e", "r", "s" >>
N_get_user == << "g", "e", "t", "_", "u", "s", "e", "r" >>
N_admin_panel == << "a", "d", "m", "i", "n", "_", "p", "a", "n", "e", "l" >>
N_a == << "a" >>

\* A route as the filter sees it: getattr(route, 'path', ''), getattr(route, 'name', '').
Route(p, n) == [path |-> p, name |-> n]

R_users == Route(P_users, N_get_users)
R_user_id == Route(P_user_id, N_get_user)
R_admin == Route(P_admin, N_admin_panel)
R_a == Route(P_a, N_a)

RouteUniverse == { R_users, R_user_id, R_admin, R_a }

\* Tokens: two exact paths, the first a proper part of the second; an exact name;
\* and "a", which is the name of one route and a proper part of two paths.
TokenUniverse == { P_users, P_user_id, N_get_user, N_a }

(***************************************************************************)
(* RouterConfig (router_loader.py:23-40), as far as the loader reads it.   *)
(***************************************************************************)
RouterConfig(name, include, exclude) ==
    [service_name |-> name, include_endpoints |-> include, exclude_endpoints |-> exclude]

OptionalTokenSets == {NoneSet} \cup { Some(S) : S \in SUBSET TokenUniverse }

(***************************************************************************)
(* _filter_router_endpoints (router_loader.py:137-183).                    *)
(***************************************************************************)
\* route_name in tokens or route_path in tokens or any(e in route_path for e in tokens)
MatchesNoSubstring(route, tokens) ==
    route.name \in tokens \/ route.path \in tokens

Matches(route, tokens) ==
    \/ route.name \in tokens
    \/ route.path \in tokens
    \/ \E endpoint \in tokens : IsSubstring(endpoint, route.path)

\* The exclude test is skipped whenever an include set is configured.
should_include_exclude_skipped(route, config) ==
    IF Truthy(config.include_endpoints)
    THEN Matches(route, config.include_endpoints.set)
    ELSE IF Truthy(config.exclude_endpoints)
         THEN ~Matches(route, config.exclude_endpoints.set)
         ELSE TRUE

\* The body of the for loop, lines 160-175: the final value of should_include.
should_include(route, config) ==
    LET after_include ==
            IF Truthy(config.include_endpoints)
            THEN Matches(route, config.include_endpoints.set)
            ELSE TRUE
    IN  IF Truthy(config.exclude_endpoints) /\ after_include
        THEN ~Matches(route, config.exclude_endpoints.set)
        ELSE after_include

\* The for loop, lines 156-181: new_router.routes after the routes still to visit.
RECURSIVE filter_loop(_, _, _)
filter_loop(todo, config, new_routes) ==
    IF todo = << >>
    THEN new_routes
    ELSE filter_loop(Tail(todo), config,
                     IF should_include(Head(todo), config)
                     THEN Append(new_routes, Head(todo))
                     ELSE new_routes)

\* Filtering done in place: the routes left out are removed from the original too.
filter_router_endpoints_in_place(routes, config) ==
    [new_routes |-> filter_loop(routes, config, << >>),
     original_routes |-> filter_loop(routes, config, << >>)]

\* The call: the routes of the new APIRouter it returns, and the routes of
\* original_router when it returns (the call only reads original_router.routes).
filter_router_endpoints(routes, config) ==
    [new_routes |-> filter_loop(routes, config, << >>),
     original_routes |-> routes]

(***************************************************************************)
(* The loaded unit: what importing config.module_path and reading          *)
(* config.router_name gives at the time of one load attempt.  It is the    *)
(* environment's choice, and may differ from one attempt to the next.      *)
(***************************************************************************)
\* Route collections a unit exports in the loader's runs.
UnitRoutes == { << R_users, R_user_id, R_admin >> }

\* kind "APIRouter": a mountable route collection; "opaque": a truthy object that
\* is no route collection (it has no .routes, include_router raises on it);
\* "falsy": an object such as None, 0 or an empty container.
Object(kind, routes, src) == [kind |-> kind, routes |-> routes, src |-> src]

PyNone == Object("None", << >>, "none")

Unit(load, obj) == [load |-> load, obj |-> obj]

Units ==
    { Unit("import_error", PyNone), Unit("no_attr", PyNone),
      Unit("ok", Object("opaque", << >>, "original")),
      Unit("ok", Object("falsy", << >>, "original")) }
    \cup { Unit("ok", Object("APIRouter", rs, "original")) : rs \in UnitRoutes }

\* bool(obj): `if router:` in load_router.
ObjTruthy(obj) == obj.kind \in { "APIRouter", "opaque" }

\* hasattr(obj, 'routes')
HasRoutes(obj) == obj.kind = "APIRouter"

\* error_msg of line 132, as the pair (service it names, what was raised).
Cause(name, reason) == [service |-> name, reason |-> reason]

Services == { "a", "b" }

\* The descriptors of the loader's runs: unfiltered, and filtered as in the
\* example of the filter (include {"/users"}, exclude {"/users/{id}"}).
Descriptors ==
    { RouterConfig(n, NoneSet, NoneSet) : n \in Services }
    \cup { RouterConfig(n, Some({P_users}), Some({P_user_id})) : n \in Services }

(***************************************************************************)
(* DynamicRouterLoader: the object's fields as one record, so that a       *)
(* method is an operator from the fields before to the fields after.       *)
(***************************************************************************)
Loader ==
    [loaded_routers |-> loaded_routers, failed_loads |-> failed_loads,
     router_configs |-> router_configs, app_routers |-> app_routers,
     original_routes |-> original_routes]

\* The failure is swallowed without a record.
record_failure_unrecorded(L, config, reason) ==
    [st |-> L, ret |-> PyNone]

\* The except branch of lines 131-135.
record_failure(L, config, reason) ==
    [st |-> [L EXCEPT !.failed_loads =
                 DictSet(L.failed_loads, config.service_name,
                         Cause(config.service_name, reason))],
     ret |-> PyNone]

\* load_router_from_path (router_loader.py:59-135): fields after, and the value
\* returned.  Nothing is raised past the except of line 131.
load_router_from_path(L, config, unit) ==
    LET viewed == [L EXCEPT !.original_routes = unit.obj.routes]
    IN  IF unit.load = "import_error"
        THEN record_failure(L, config, "import_error")
        ELSE IF unit.load = "no_attr"
        THEN record_failure(L, config, "attribute_missing")
        ELSE IF Truthy(config.include_endpoints) \/ Truthy(config.exclude_endpoints)
        THEN IF ~HasRoutes(unit.obj)
             THEN record_failure(viewed, config, "filter_error")
             ELSE LET f == filter_router_endpoints(unit.obj.routes, config)
                      filtered_router == Object("APIRouter", f.new_routes, "filtered")
                  IN  [st |-> [L EXCEPT
                                 !.loaded_routers =
                                     DictSet(L.loaded_routers, config.service_name,
                                             filtered_router),
                                 !.original_routes = f.original_routes],
                       ret |-> filtered_router]
        ELSE [st |-> [viewed EXCEPT
                        !.loaded_routers =
                            DictSet(L.loaded_routers, config.service_name, unit.obj)],
              ret |-> unit.obj]

\* app.include_router(router, prefix=...) of line 198 raises: always on an object
\* that is no APIRouter, and on an APIRouter when the transport refuses it
\* (include_router asserts on the prefix), which is the input attach_ok.
AttachRaises(router, attach_ok) == router.kind # "APIRouter" \/ ~attach_ok

\* load_router (router_loader.py:185-208): fields after, the value returned,
\* and whether an exception left the method instead.
load_router(L, config, unit, attach_ok) ==
    LET r == load_router_from_path(L, config, unit)
    IN  IF ObjTruthy(r.ret)
        THEN IF AttachRaises(r.ret, attach_ok)
             THEN [st |-> r.st, ret |-> FALSE, raised |-> TRUE]
             ELSE [st |-> [r.st EXCEPT
                             !.app_routers =
                                 Append(@, [service |-> config.service_name,
                                            router |-> r.ret]),
                             !.router_configs = Append(@, config)],
                   ret |-> TRUE, raised |-> FALSE]
        ELSE [st |-> r.st, ret |-> FALSE, raised |-> FALSE]

\* The old attachments of the service are taken off the app.
reload_router_unmounts(L, config, unit, attach_ok) ==
    LET IsOther(a) == a.service # config.service_name
        cleared == [L EXCEPT
                      !.loaded_routers = DictDel(@, config.service_name),
                      !.failed_loads = DictDel(@, config.service_name),
                      !.app_routers = SelectSeq(@, IsOther)]
    IN  load_router(cleared, config, unit, attach_ok)

\* reload_router (router_loader.py:255-275).
reload_router(L, config, unit, attach_ok) ==
    LET cleared == [L EXCEPT
                      !.loaded_routers = DictDel(@, config.service_name),
                      !.failed_loads = DictDel(@, config.service_name)]
    IN  load_router(cleared, config, unit, attach_ok)

\* The loop of load_all_routers as a record of its locals and the loader's fields.
Loop ==
    [L |-> Loader, configs |-> configs, idx |-> idx, results |-> results,
     attempts |-> attempts]

\* An exception of load_router ends the loop: the remaining descriptors are skipped.
load_all_iteration_break(S, unit, attach_ok) ==
    LET config == S.configs[S.idx]
        r == load_router(S.L, config, unit, attach_ok)
    IN  [S EXCEPT !.L = r.st,
                  !.results = DictSet(@, config.service_name, r.ret),
                  !.attempts = Append(@, config),
                  !.idx = IF r.raised THEN Len(S.configs) + 1 ELSE @ + 1]

\* The except branch leaves no entry in results.
load_all_iteration_no_entry(S, unit, attach_ok) ==
    LET config == S.configs[S.idx]
        r == load_router(S.L, config, unit, attach_ok)
    IN  [S EXCEPT !.L = r.st,
                  !.results = IF r.raised THEN @
                              ELSE DictSet(@, config.service_name, r.ret),
                  !.attempts = Append(@, config),
                  !.idx = @ + 1]

\* One iteration of the for loop of load_all_routers (router_loader.py:227-233):
\* results[config.service_name] is load_router's value, or False when it raised.
load_all_iteration(S, unit, attach_ok) ==
    LET config == S.configs[S.idx]
        r == load_router(S.L, config, unit, attach_ok)
    IN  [S EXCEPT !.L = r.st,
                  !.results = DictSet(@, config.service_name,
                                      IF r.raised THEN FALSE ELSE r.ret),
                  !.attempts = Append(@, config),
                  !.idx = @ + 1]

(***************************************************************************)
(* Actions of the loader.                                                  *)
(***************************************************************************)
SetLoader(st) ==
    /\ loaded_routers' = st.loaded_routers
    /\ failed_loads' = st.failed_loads
    /\ router_configs' = st.router_configs
    /\ app_routers' = st.app_routers
    /\ original_routes' = st.original_routes

Last(op, config, unit, ret, raised) ==
    [op |-> op, config |-> config, unit |-> unit, ret |-> ret, raised |-> raised]

NoConfig == RouterConfig("", NoneSet, NoneSet)

NoUnit == Unit("none", PyNone)

\* A descriptor list of at most MaxLoads descriptors.
ConfigLists ==
    UNION { [1..n -> Descriptors] : n \in 0..MaxLoads }

\* Outside load_all_routers its locals do not exist.
NoLoadAll ==
    /\ pc' = "idle"
    /\ configs' = << >>
    /\ idx' = 1
    /\ results' = EmptyDict
    /\ attempts' = << >>

\* load_router_from_path called on its own.
LoadRouterFromPath(config, unit) ==
    /\ pc = "idle"
    /\ loads < MaxLoads
    /\ loads' = loads + 1
    /\ LET r == load_router_from_path(Loader, config, unit)
       IN  /\ SetLoader(r.st)
           /\ last' = Last("load_router_from_path", config, unit,
                           IF r.ret = PyNone THEN "None" ELSE "router", FALSE)
    /\ NoLoadAll
    /\ UNCHANGED << filterVars, configVars, managerVars, readVars >>

\* load_router called on its own.
LoadRouter(config, unit, attach_ok) ==
    /\ pc = "idle"
    /\ loads < MaxLoads
    /\ loads' = loads + 1
    /\ LET r == load_router(Loader, config, unit, attach_ok)
       IN  /\ SetLoader(r.st)
           /\ last' = Last("load_router", config, unit,
                           IF r.ret THEN "True" ELSE "False", r.raised)
    /\ NoLoadAll
    /\ UNCHANGED << filterVars, configVars, managerVars, readVars >>

ReloadRouter(config, unit, attach_ok) ==
    /\ pc = "idle"
    /\ loads < MaxLoads
    /\ loads' = loads + 1
    /\ LET r == reload_router(Loader, config, unit, attach_ok)
       IN  /\ SetLoader(r.st)
           /\ last' = Last("reload_router", config, unit,
                           IF r.ret THEN "True" ELSE "False", r.raised)
    /\ NoLoadAll
    /\ UNCHANGED << filterVars, configVars, managerVars, readVars >>

\* load_all_routers is entered: results = {} (line 225).
LoadAllStart(list) ==
    /\ pc = "idle"
    /\ loads + Len(list) <= MaxLoads
    /\ pc' = "load_all"
    /\ configs' = list
    /\ idx' = 1
    /\ results' = EmptyDict
    /\ attempts' = << >>
    /\ last' = Last("load_all_start", NoConfig, NoUnit, "None", FALSE)
    /\ UNCHANGED << loaded_routers, failed_loads, router_configs, app_routers,
                    original_routes, loads >>
    /\ UNCHANGED << filterVars, configVars, managerVars, readVars >>

\* One iteration of its loop.
LoadAllIter(unit, attach_ok) ==
    /\ pc = "load_all"
    /\ idx <= Len(configs)
    /\ loads' = loads + 1
    /\ LET S == load_all_iteration(Loop, unit, attach_ok)
       IN  /\ SetLoader(S.L)
           /\ idx' = S.idx
           /\ results' = S.results
           /\ attempts' = S.attempts
           /\ last' = Last("load_all_iteration", configs[idx], unit,
                           IF /\ configs[idx].service_name \in DOMAIN S.results
                              /\ S.results[configs[idx].service_name]
                           THEN "True" ELSE "False", FALSE)
    /\ UNCHANGED << pc, configs >>
    /\ UNCHANGED << filterVars, configVars, managerVars, readVars >>

\* The loop is over: load_all_routers returns results (line 240).
LoadAllReturn ==
    /\ pc = "load_all"
    /\ idx > Len(configs)
    /\ pc' = "idle"
    /\ last' = Last("load_all_routers", NoConfig, NoUnit, "results", FALSE)
    /\ UNCHANGED << loaded_routers, failed_loads, router_configs, app_routers,
                    original_routes, configs, idx, results, attempts, loads >>
    /\ UNCHANGED << filterVars, configVars, managerVars, readVars >>

(***************************************************************************)
(* reload_router statement by statement, and a reader in another thread of *)
(* the host.  Neither method takes a lock.                                  *)
(***************************************************************************)
\* The two membership tests of get_services_status (main.py:276-278) on one
\* service: is it a key of loaded_routers, is it a key of failed_loads.
Membership(L, service_name) ==
    << service_name \in DOMAIN L.loaded_routers,
       service_name \in DOMAIN L.failed_loads >>

\* What a call of get_services_status saw of a service: the two tests, where
\* reload_router stood, the service it was reloading and what held when that
\* reload began.
Seen(service_name, membership, during, reloading, pre) ==
    [service |-> service_name, membership |-> membership, during |-> during,
     reloading |-> reloading, pre |-> pre]

NotSeen == Seen("", << FALSE, FALSE >>, "idle", "", << FALSE, FALSE >>)

\* reload_router is entered (router_loader.py:255).
ReloadEnter(config) ==
    /\ pc = "idle"
    /\ loads < MaxLoads
    /\ pc' = "reload_del_loaded"
    /\ configs' = << config >>
    /\ r_pre' = Membership(Loader, config.service_name)
    /\ last' = Last("reload_enter", config, NoUnit, "None", FALSE)
    /\ UNCHANGED << loaded_routers, failed_loads, router_configs, app_routers,
                    original_routes, idx, results, attempts, loads, seen >>
    /\ UNCHANGED << filterVars, configVars, managerVars >>

\* Lines 266-267: the old router is removed.
ReloadDelLoaded ==
    /\ pc = "reload_del_loaded"
    /\ loaded_routers' = DictDel(loaded_routers, configs[1].service_name)
    /\ pc' = "reload_del_failed"
    /\ UNCHANGED << failed_loads, router_configs, app_routers, original_routes,
                    configs, idx, results, attempts, loads, last >>
    /\ UNCHANGED << filterVars, configVars, managerVars, readVars >>

\* Lines 270-271: the failed load is cleared.
ReloadDelFailed ==
    /\ pc = "reload_del_failed"
    /\ failed_loads' = DictDel(failed_loads, configs[1].service_name)
    /\ pc' = "reload_load"
    /\ UNCHANGED << loaded_routers, router_configs, app_routers, original_routes,
                    configs, idx, results, attempts, loads, last >>
    /\ UNCHANGED << filterVars, configVars, managerVars, readVars >>

\* Line 274: load_router, and reload_router returns or raises.
ReloadLoad(unit, attach_ok) ==
    /\ pc = "reload_load"
    /\ loads' = loads + 1
    /\ \E r \in { load_router(Loader, configs[1], unit, attach_ok) } :
           /\ SetLoader(r.st)
           /\ last' = Last("reload_router", configs[1], unit,
                           IF r.ret THEN "True" ELSE "False", r.raised)
    /\ NoLoadAll
    /\ r_pre' = << FALSE, FALSE >>
    /\ UNCHANGED seen
    /\ UNCHANGED << filterVars, configVars, managerVars >>

\* get_services_status (main.py:269-283) called from another thread, for one
\* service; the two tests are taken as one step.
GetServicesStatus(service_name) ==
    /\ seen' = Seen(service_name, Membership(Loader, service_name), pc,
                    IF pc = "idle" THEN "" ELSE configs[1].service_name, r_pre)
    /\ seen' # seen
    /\ UNCHANGED << loaderVars, filterVars, configVars, managerVars, r_pre >>

(***************************************************************************)
(* _filter_router_endpoints called on its own.                             *)
(***************************************************************************)
RouteLists ==
    UNION { [1..n -> RouteUniverse] : n \in 0..MaxRoutes }

NotCalled == [called |-> FALSE, new_routes |-> << >>, original_routes |-> << >>]

Called(new_routes, original) ==
    [called |-> TRUE, new_routes |-> new_routes, original_routes |-> original]

\* The unit that exports the collection f_routes.
FilterUnit == Unit("ok", Object("APIRouter", f_routes, "original"))

\* The direct call, as in test_filter_router_endpoints.
FilterCall ==
    /\ ~f_result.called
    /\ LET f == filter_router_endpoints(f_routes, f_config)
       IN  f_result' = Called(f.new_routes, f.original_routes)
    /\ UNCHANGED << f_routes, f_config >>
    /\ UNCHANGED << loaderVars, configVars, managerVars, readVars >>

\* The call made by a load: load_router on the descriptor f_config and a unit
\* that exports f_routes; the filtered collection is the handler it records.
FilterByLoad ==
    /\ ~f_result.called
    /\ loads' = loads + 1
    /\ LET r == load_router(Loader, f_config, FilterUnit, TRUE)
       IN  /\ SetLoader(r.st)
           /\ f_result' = Called(r.st.loaded_routers[f_config.service_name].routes,
                                 r.st.original_routes)
           /\ last' = Last("load_router", f_config, FilterUnit,
                           IF r.ret THEN "True" ELSE "False", r.raised)
    /\ NoLoadAll
    /\ UNCHANGED << f_routes, f_config >>
    /\ UNCHANGED << configVars, managerVars, readVars >>

\* The same by reload_router.
FilterByReload ==
    /\ ~f_result.called
    /\ loads' = loads + 1
    /\ LET r == reload_router(Loader, f_config, FilterUnit, TRUE)
       IN  /\ SetLoader(r.st)
           /\ f_result' = Called(r.st.loaded_routers[f_config.service_name].routes,
                                 r.st.original_routes)
           /\ last' = Last("reload_router", f_config, FilterUnit,
                           IF r.ret THEN "True" ELSE "False", r.raised)
    /\ NoLoadAll
    /\ UNCHANGED << f_routes, f_config >>
    /\ UNCHANGED << configVars, managerVars, readVars >>

(***************************************************************************)
(* Python values of the configuration: a type tag and the payload of that  *)
(* type (b for bool, i for int, i and e for the float i * 10^e, s for str  *)
(* and for the floats inf and nan).                                        *)
(***************************************************************************)
PyValue(type, b, i, e, str) == [type |-> type, b |-> b, i |-> i, e |-> e, s |-> str]

PyBool(b) == PyValue("bool", b, 0, 0, << >>)

PyInt(i) == PyValue("int", FALSE, i, 0, << >>)

PyFloat(m, e) == PyValue("float", FALSE, m, e, << >>)

PyFloatSpecial(name) == PyValue("float", FALSE, 0, 0, name)

PyStr(str) == PyValue("str", FALSE, 0, 0, str)

NoneValue == PyValue("NoneType", FALSE, 0, 0, << >>)

\* A YAML sequence; its elements play no part in what the loader does with it.
ListValue == PyValue("list", FALSE, 0, 0, << >>)

(***************************************************************************)
(* str.lower, str.upper, str.strip, int(str) and float(str).               *)
(***************************************************************************)
LowerLetters == 
    << "a", "b", "c", "d", "e", "f", "g", "h", "i", "j", "k", "l", "m" >> \o
    << "n", "o", "p", "q", "r", "s", "t", "u", "v", "w", "x", "y", "z" >>

UpperLetters == 
    << "A", "B", "C", "D", "E", "F", "G", "H", "I", "J", "K", "L", "M" >> \o
    << "N", "O", "P", "Q", "R", "S", "T", "U", "V", "W", "X", "Y", "Z" >>

DigitChars == << "0", "1", "2", "3", "4", "5", "6", "7", "8", "9" >>

IndexIn(c, seq) == CHOOSE k \in 1..Len(seq) : seq[k] = c

LowerChar(c) ==
    IF c \in Range(UpperLetters) THEN LowerLetters[IndexIn(c, UpperLetters)] ELSE c

UpperChar(c) ==
    IF c \in Range(LowerLetters) THEN UpperLetters[IndexIn(c, LowerLetters)] ELSE c

Lower(str) == [k \in 1..Len(str) |-> LowerChar(str[k])]

Upper(str) == [k \in 1..Len(str) |-> UpperChar(str[k])]

IsSpace(c) == c = " "

RECURSIVE LStrip(_)
LStrip(str) ==
    IF str # << >> /\ IsSpace(Head(str)) THEN LStrip(Tail(str)) ELSE str

RECURSIVE RStrip(_)
RStrip(str) ==
    IF str # << >> /\ IsSpace(str[Len(str)])
    THEN RStrip(SubSeq(str, 1, Len(str) - 1))
    ELSE str

Strip(str) == RStrip(LStrip(str))

AllDigits(str) == \A k \in 1..Len(str) : str[k] \in Range(DigitChars)

DigitValue(c) == IndexIn(c, DigitChars) - 1

RECURSIVE DigitsValue(_)
DigitsValue(str) ==
    IF str = << >> THEN 0
    ELSE 10 * DigitsValue(SubSeq(str, 1, Len(str) - 1)) + DigitValue(str[Len(str)])

HasSign(str) == str # << >> /\ Head(str) \in { "+", "-" }

Unsigned(str) == IF HasSign(str) THEN Tail(str) ELSE str

SignOf(str) == IF str # << >> /\ Head(str) = "-" THEN -1 ELSE 1

\* int(str): surrounding blanks, a sign, decimal digits.  Anything else raises
\* ValueError (ok = FALSE).  Digit grouping with "_" is not modelled.
ParseInt(str) ==
    LET t == Strip(str)
        body == Unsigned(t)
    IN  IF body # << >> /\ AllDigits(body)
        THEN [ok |-> TRUE, value |-> PyInt(SignOf(t) * DigitsValue(body))]
        ELSE [ok |-> FALSE, value |-> NoneValue]

RECURSIVE DropTrailingZeros(_)
DropTrailingZeros(str) ==
    IF str # << >> /\ str[Len(str)] = "0"
    THEN DropTrailingZeros(SubSeq(str, 1, Len(str) - 1))
    ELSE str

S_inf == << "i", "n", "f" >>
S_infinity == << "i", "n", "f", "i", "n", "i", "t", "y" >>
S_nan == << "n", "a", "n" >>

\* float(str): surrounding blanks, a sign, then inf, infinity or nan in any case,
\* or digits with at most one "." and a digit on one side of it.  Anything else
\* raises ValueError.  Exponents and digit grouping are not modelled.
ParseFloat(str) ==
    LET t == Strip(str)
        body == Unsigned(t)
        dots == { k \in 1..Len(body) : body[k] = "." }
        dot == IF dots = {} THEN Len(body) + 1 ELSE CHOOSE k \in dots : TRUE
        whole == SubSeq(body, 1, dot - 1)
        frac == DropTrailingZeros(SubSeq(body, dot + 1, Len(body)))
    IN  IF Lower(body) \in { S_inf, S_infinity }
        THEN [ok |-> TRUE, value |-> PyFloatSpecial(IF SignOf(t) = 1 THEN S_inf
                                                     ELSE << "-" >> \o S_inf)]
        ELSE IF Lower(body) = S_nan
        THEN [ok |-> TRUE, value |-> PyFloatSpecial(S_nan)]
        ELSE IF /\ Cardinality(dots) <= 1
                /\ AllDigits(whole)
                /\ AllDigits(SubSeq(body, dot + 1, Len(body)))
                /\ Len(body) > Cardinality(dots)
        THEN [ok |-> TRUE,
              value |-> PyFloat(SignOf(t) * DigitsValue(whole \o frac), 0 - Len(frac))]
        ELSE [ok |-> FALSE, value |-> NoneValue]


(***************************************************************************)
(* str(value) for the values of the configuration.                         *)
(***************************************************************************)
RECURSIVE FormatNat(_)
FormatNat(n) ==
    IF n < 10 THEN << DigitChars[n + 1] >>
    ELSE FormatNat(n \div 10) \o << DigitChars[(n % 10) + 1] >>

FormatInt(i) == IF i < 0 THEN << "-" >> \o FormatNat(0 - i) ELSE FormatNat(i)

RECURSIVE PadLeft(_, _)
PadLeft(str, n) == IF Len(str) >= n THEN str ELSE PadLeft(<< "0" >> \o str, n)

\* repr of the float i * 10^e (e <= 0): the digits with a point, ".0" for a whole
\* number.  The exponent notation Python chooses for very large and very small
\* floats is outside the values of the runs.
FormatFloat(i, e) ==
    LET digits == PadLeft(FormatNat(IF i < 0 THEN 0 - i ELSE i), 1 - e)
        cut == Len(digits) + e
    IN  (IF i < 0 THEN << "-" >> ELSE << >>)
        \o SubSeq(digits, 1, cut) \o << "." >>
        \o (IF e = 0 THEN << "0" >> ELSE SubSeq(digits, cut + 1, Len(digits)))

S_True == << "T", "r", "u", "e" >>
S_False == << "F", "a", "l", "s", "e" >>
S_None == << "N", "o", "n", "e" >>
S_brackets == << "[", "]" >>

\* str(value), as inject_service_config (line 168) and get_gateway_config
\* (lines 86-87) apply it.  The YAML sequence is taken to be the empty one.
Str(value) ==
    IF value.type = "bool" THEN (IF value.b THEN S_True ELSE S_False)
    ELSE IF value.type = "int" THEN FormatInt(value.i)
    ELSE IF value.type = "float"
    THEN (IF value.s # << >> THEN value.s ELSE FormatFloat(value.i, value.e))
    ELSE IF value.type = "NoneType" THEN S_None
    ELSE IF value.type = "list" THEN S_brackets
    ELSE value.s

(***************************************************************************)
(* DynamicConfigLoader (config_manager.py:36-136).                         *)
(***************************************************************************)
E_true == << "t", "r", "u", "e" >>
E_one == << "1" >>
E_yes == << "y", "e", "s" >>
E_on == << "o", "n" >>
E_false == << "f", "a", "l", "s", "e" >>
E_zero == << "0" >>
E_no == << "n", "o" >>
E_off == << "o", "f", "f" >>
E_True == << "T", "r", "u", "e" >>
E_45 == << "4", "5" >>
E_4_5 == << "4", ".", "5" >>
E_abc == << "a", "b", "c" >>
E_empty == << >>

\* _convert_env_value (config_manager.py:106-121).
convert_env_value(env_value, original_value) ==
    IF original_value.type = "bool"
    THEN PyBool(Lower(env_value) \in { E_true, E_one, E_yes, E_on })
    ELSE IF original_value.type = "int"
    THEN IF ParseInt(env_value).ok THEN ParseInt(env_value).value ELSE original_value
    ELSE IF original_value.type = "float"
    THEN IF ParseFloat(env_value).ok THEN ParseFloat(env_value).value
         ELSE original_value
    ELSE PyStr(env_value)

\* env_key of line 98: f"{service_name.upper()}_{key.upper()}".
EnvKey(service_name, key) == Upper(service_name) \o << "_" >> \o Upper(key)

\* A service that is not in the loaded configuration is added to it.
get_service_config_setdefault(data, env, service_name) ==
    LET service_config ==
            IF service_name \in DOMAIN data THEN data[service_name] ELSE EmptyDict
        after ==
            [key \in DOMAIN service_config |->
                IF EnvKey(service_name, key) \in DOMAIN env
                THEN convert_env_value(env[EnvKey(service_name, key)],
                                       service_config[key])
                ELSE service_config[key]]
    IN  [config_data |-> DictSet(data, service_name, after),
         ret |-> after]

\* get_service_config (config_manager.py:91-104).  service_config is the dict
\* held by self.config_data, not a copy: the assignment of line 102 changes the
\* loaded configuration.  Gives the loaded configuration after the call and the
\* dict returned.
get_service_config(data, env, service_name) ==
    LET service_config ==
            IF service_name \in DOMAIN data THEN data[service_name] ELSE EmptyDict
        after ==
            [key \in DOMAIN service_config |->
                IF EnvKey(service_name, key) \in DOMAIN env
                THEN convert_env_value(env[EnvKey(service_name, key)],
                                       service_config[key])
                ELSE service_config[key]]
    IN  [config_data |-> IF service_name \in DOMAIN data
                         THEN [data EXCEPT ![service_name] = after]
                         ELSE data,
         ret |-> after]

\* The configuration file of the runs: one service with one key.
S_svc == << "s", "v", "c" >>
K_timeout == << "t", "i", "m", "e", "o", "u", "t" >>

FileValues ==
    { PyBool(TRUE), PyBool(FALSE), PyInt(30), PyFloat(45, -1), PyStr(E_abc),
      NoneValue, ListValue }

ConfigFiles ==
    { [service \in {S_svc} |-> [key \in {K_timeout} |-> v]] : v \in FileValues }

EnvNames == { EnvKey(S_svc, K_timeout) }

EnvStrings == { E_45, E_abc, E_True, E_yes, E_zero, E_4_5, E_empty, S_nan }

ConfigRead(op, service, ret) == [op |-> op, service |-> service, ret |-> ret]

NoRead == ConfigRead("none", << >>, EmptyDict)

\* What an operation of the manager or of the gateway left: the value returned,
\* or raised = TRUE when an exception left it instead.
Call(op, name, ret, raised) == [op |-> op, name |-> name, ret |-> ret, raised |-> raised]

NoCall == Call("none", << >>, EmptyDict, FALSE)

\* The environment changes: a variable is set (os.environ, patch.dict).
SetEnv(name, value) ==
    /\ environ' = DictSet(environ, name, value)
    /\ environ' # environ
    /\ operator_env' = operator_env \cup { name }
    /\ c_last' = NoRead
    /\ m_last' = NoCall
    /\ UNCHANGED << config_file, config_data >>
    /\ UNCHANGED << file_state, gateway_file, gateway_data, gateway_config,
                    injected_configs, service_settings, target_env, calls >>
    /\ UNCHANGED << loaderVars, filterVars, readVars >>

\* The environment changes: a variable is removed.
DelEnv(name) ==
    /\ name \in DOMAIN environ
    /\ environ' = DictDel(environ, name)
    /\ operator_env' = operator_env \ { name }
    /\ c_last' = NoRead
    /\ m_last' = NoCall
    /\ UNCHANGED << config_file, config_data >>
    /\ UNCHANGED << file_state, gateway_file, gateway_data, gateway_config,
                    injected_configs, service_settings, target_env, calls >>
    /\ UNCHANGED << loaderVars, filterVars, readVars >>

GetServiceConfig(service_name) ==
    /\ LET r == get_service_config(config_data, environ, service_name)
       IN  /\ config_data' = r.config_data
           /\ c_last' = ConfigRead("get_service_config", service_name, r.ret)
    /\ m_last' = NoCall
    /\ UNCHANGED << config_file, environ >>
    /\ UNCHANGED << file_state, gateway_file, gateway_data, gateway_config,
                    injected_configs, service_settings, target_env, operator_env,
                    calls >>
    /\ UNCHANGED << loaderVars, filterVars, readVars >>


(***************************************************************************)
(* The whole configuration: the "gateway" section next to the services.    *)
(* A section of the file may be absent; config_data.get("gateway", {}) then *)
(* gives a new dict at each call, which config_data does not hold.         *)
(***************************************************************************)
Section(d) == [present |-> TRUE, dict |-> d]

NoSection == [present |-> FALSE, dict |-> EmptyDict]

DictGet(d, k, default) == IF k \in DOMAIN d THEN d[k] ELSE default

H_any == << "0", ".", "0", ".", "0", ".", "0" >>
H_local == << "1", "2", "7", ".", "0", ".", "0", ".", "1" >>
H_new == << "n", "e", "w", "-", "h", "o", "s", "t" >>
H_env == << "h" >>
T_gateway == << "D", "y", "n", "a", "m", "i", "c", " ", "A", "P", "I", " ", "G", "a", "t", "e", "w", "a", "y" >>
T_test == << "T", "e", "s", "t", " ", "G", "a", "t", "e", "w", "a", "y" >>
V_100 == << "1", ".", "0", ".", "0" >>
E_9000 == << "9", "0", "0", "0" >>

\* _get_default_config (config_manager.py:67-78).
get_default_config ==
    [gateway |-> Section([host |-> PyStr(H_any), port |-> PyInt(8000),
                          debug |-> PyBool(TRUE), title |-> PyStr(T_gateway),
                          version |-> PyStr(V_100)]),
     services |-> EmptyDict]

\* The configuration file as load_config meets it.
File(state, gateway, services) ==
    [state |-> state, gateway |-> gateway, services |-> services]

\* A file that cannot be read leaves an empty configuration.
load_config_empty_on_error(file) ==
    IF file.state = "ok"
    THEN [gateway |-> file.gateway, services |-> file.services]
    ELSE IF file.state = "missing" THEN get_default_config
    ELSE [gateway |-> NoSection, services |-> EmptyDict]

\* load_config (config_manager.py:52-65): the file's content, or the default
\* configuration when the file is missing or reading it raises.
load_config(file) ==
    IF file.state = "ok"
    THEN [gateway |-> file.gateway, services |-> file.services]
    ELSE get_default_config

N_GATEWAY_HOST == << "G", "A", "T", "E", "W", "A", "Y", "_", "H", "O", "S", "T" >>
N_GATEWAY_PORT == << "G", "A", "T", "E", "W", "A", "Y", "_", "P", "O", "R", "T" >>
N_GATEWAY_DEBUG == << "G", "A", "T", "E", "W", "A", "Y", "_", "D", "E", "B", "U", "G" >>

\* os.getenv(name, default)
getenv(env, name, default) == IF name \in DOMAIN env THEN env[name] ELSE default

\* get_gateway_config (config_manager.py:80-89).  gateway_config is the dict held
\* by config_data when the section exists: the three assignments change it.
\* int() of line 86 raises ValueError on a port that is no integer, after host
\* has been assigned.  Gives the section after the call, the dict returned and
\* whether the call raised.
get_gateway_config(section, env) ==
    LET g0 == section.dict
        g1 == DictSet(g0, "host",
                      IF N_GATEWAY_HOST \in DOMAIN env
                      THEN PyStr(env[N_GATEWAY_HOST])
                      ELSE DictGet(g0, "host", PyStr(H_any)))
        port == ParseInt(getenv(env, N_GATEWAY_PORT,
                                Str(DictGet(g1, "port", PyInt(8000)))))
        g2 == DictSet(g1, "port", port.value)
        g3 == DictSet(g2, "debug",
                      PyBool(Lower(getenv(env, N_GATEWAY_DEBUG,
                                          Str(DictGet(g2, "debug", PyBool(FALSE)))))
                             = E_true))
        after == IF port.ok THEN g3 ELSE g1
    IN  [section |-> IF section.present THEN Section(after) ELSE NoSection,
         ret |-> after,
         raised |-> ~port.ok]

(***************************************************************************)
(* References to dicts.  A reference is live while the dict it names is    *)
(* the one config_data holds under that name; load_config replaces         *)
(* config_data, and the dicts of the old one stay as they were.            *)
(***************************************************************************)
Live == [live |-> TRUE, dict |-> EmptyDict]

Detached(d) == [live |-> FALSE, dict |-> d]

\* The dict a reference to a service's config names.
Deref(ref, data, name) == IF ref.live THEN data[name] ELSE ref.dict

\* The dict a reference to the gateway section names.
DerefGateway(ref, section) == IF ref.live THEN section.dict ELSE ref.dict

\* What the references name once config_data has been replaced.
Detach(refs, data) ==
    [n \in DOMAIN refs |-> Detached(Deref(refs[n], data, n))]

(***************************************************************************)
(* ConfigInjector and UnifiedConfigManager (config_manager.py:139-306):    *)
(* the fields of the three objects as one record.                          *)
(***************************************************************************)
Manager ==
    [gateway |-> gateway_data, services |-> config_data, environ |-> environ,
     injected_configs |-> injected_configs, service_settings |-> service_settings,
     target_env |-> target_env]

\* The dict get_service_config returns: the one config_data holds for a service
\* of the file, a new empty dict for any other name.
RefTo(services, service_name) ==
    IF service_name \in DOMAIN services THEN Live ELSE Detached(EmptyDict)

\* The variable is named after the key as it is spelled, not uppercased.
Injected_key_as_is(env, service_name, service_config) ==
    LET name_of(key) == Upper(service_name) \o << "_" >> \o key
        names == { name_of(key) : key \in DOMAIN service_config }
        key_of(n) == CHOOSE key \in DOMAIN service_config : name_of(key) = n
    IN  [n \in (DOMAIN env) \cup names |->
            IF n \in names THEN Str(service_config[key_of(n)]) ELSE env[n]]

\* target_env[env_key] = str(value) for every key (lines 166-168).
Injected(env, service_name, service_config) ==
    LET names == { EnvKey(service_name, key) : key \in DOMAIN service_config }
        key_of(n) == CHOOSE key \in DOMAIN service_config :
                         EnvKey(service_name, key) = n
    IN  [n \in (DOMAIN env) \cup names |->
            IF n \in names THEN Str(service_config[key_of(n)]) ELSE env[n]]

\* inject_service_config (config_manager.py:148-175).  target_env is os.environ
\* (into_os_environ) or the caller's dict.  Gives the fields after and a
\* reference to the dict returned.
inject_service_config(M, service_name, into_os_environ) ==
    Only({ [st |-> [M EXCEPT
                      !.services = r.config_data,
                      !.environ = IF into_os_environ
                                  THEN Injected(@, service_name, r.ret) ELSE @,
                      !.target_env = IF into_os_environ THEN @
                                     ELSE Injected(@, service_name, r.ret),
                      !.injected_configs =
                          DictSet(@, service_name, RefTo(M.services, service_name))],
            ret |-> RefTo(M.services, service_name)] :
           r \in { get_service_config(M.services, M.environ, service_name) } })

\* The keys of a dict in the order of iteration.
RECURSIVE KeysOf(_)
KeysOf(names) ==
    IF names = {} THEN << >>
    ELSE LET n == CHOOSE x \in names : TRUE
         IN  << n >> \o KeysOf(names \ { n })

\* get_all_service_configs (config_manager.py:123-131): one read per service.
RECURSIVE get_all_service_configs(_, _, _)
get_all_service_configs(data, env, todo) ==
    IF todo = << >> THEN data
    ELSE Only({ get_all_service_configs(read.config_data, env, Tail(todo)) :
                read \in { get_service_config(data, env, Head(todo)) } })

RECURSIVE inject_each(_, _, _)
inject_each(M, todo, into_os_environ) ==
    IF todo = << >> THEN M
    ELSE Only({ inject_each(i.st, Tail(todo), into_os_environ) :
                i \in { inject_service_config(M, Head(todo), into_os_environ) } })

\* inject_all_configs (config_manager.py:177-196): the services of the loaded
\* configuration are read, then injected one by one.
inject_all_configs(M, into_os_environ) ==
    Only({ [st |-> inject_each(read, KeysOf(DOMAIN M.services), into_os_environ),
            ret |-> [n \in DOMAIN M.services |-> Live]] :
           read \in { [M EXCEPT !.services =
                          get_all_service_configs(M.services, M.environ,
                                                  KeysOf(DOMAIN M.services))] } })

\* The second read of setup_service_config (line 228) and the assignment of
\* line 231, after the injection i.
setup_second_read(i, was_in_file, service_name) ==
    Only({ [st |-> [i.st EXCEPT
                      !.services = r.config_data,
                      !.service_settings =
                          DictSet(@, service_name,
                                  IF was_in_file THEN Live ELSE Detached(EmptyDict))],
            ret |-> i.ret] :
           r \in { get_service_config(i.st.services, i.st.environ, service_name) } })

\* setup_service_config (config_manager.py:214-234): injection into os.environ,
\* then a second read, whose dict is stored in service_settings.  The value
\* returned is the dict of the injection.
setup_service_config(M, service_name) ==
    Only({ setup_second_read(i, service_name \in DOMAIN M.services, service_name) :
           i \in { inject_service_config(M, service_name, TRUE) } })

RECURSIVE setup_each(_, _)
setup_each(M, todo) ==
    IF todo = << >> THEN M
    ELSE Only({ setup_each(s.st, Tail(todo)) :
                s \in { setup_service_config(M, Head(todo)) } })

\* setup_all_services (config_manager.py:236-244).
setup_all_services(M) ==
    [st |-> setup_each(M, KeysOf(DOMAIN M.services)),
     ret |-> [n \in DOMAIN M.services |-> Live]]

\* reload_config (config_manager.py:133-136) on the manager's loader: config_data
\* is replaced, and what was handed out before keeps naming the old dicts.
reload_config(M, file) ==
    [M EXCEPT !.gateway = load_config(file).gateway,
              !.services = load_config(file).services,
              !.injected_configs = Detach(@, M.services),
              !.service_settings = Detach(@, M.services)]

\* reload_all_configs (config_manager.py:254-262).
reload_all_configs(M, file) ==
    Only({ setup_each(reloaded, KeysOf(DOMAIN M.service_settings)) :
           reloaded \in { reload_config(M, file) } })

\* validate_service_config (config_manager.py:274-306).  What service_settings
\* holds is a dict (line 228-231), and a dict has no model_dump: line 293 raises
\* AttributeError, which the except of line 301 turns into the result.
Validation(valid, service_name, has_config, has_error) ==
    [valid |-> valid, service_name |-> service_name, has_config |-> has_config,
     has_error |-> has_error]

\* hasattr(settings, "model_dump") for what service_settings holds.
HasModelDump(settings) == FALSE

validate_service_config(M, service_name) ==
    IF service_name \notin DOMAIN M.service_settings
    THEN Validation(FALSE, << >>, FALSE, TRUE)
    ELSE IF HasModelDump(M.service_settings[service_name])
    THEN Validation(TRUE, service_name, TRUE, FALSE)
    ELSE Validation(FALSE, service_name, FALSE, TRUE)

\* get_config_status (config_manager.py:264-272).  The gateway config it reads is
\* the dict of config_data, changed by the read; an exception of that read leaves
\* the method.
get_config_status(M) ==
    Only({ [st |-> [M EXCEPT !.gateway = g.section],
            ret |-> [gateway_config |-> g.ret,
                     loaded_services |-> DOMAIN M.service_settings,
                     injected_configs |-> DOMAIN M.injected_configs,
                     total_services |-> Cardinality(DOMAIN M.service_settings)],
            raised |-> g.raised] :
           g \in { get_gateway_config(M.gateway, M.environ) } })

\* DynamicConfigLoader.get_all_service_configs called on its own: the dict
\* returned maps each service of the loaded configuration to its dict.
GetAllServiceConfigs ==
    /\ \E data \in { get_all_service_configs(config_data, environ,
                                              KeysOf(DOMAIN config_data)) } :
           /\ config_data' = data
           /\ c_last' = ConfigRead("get_all_service_configs", << >>, data)
    /\ c_last' # c_last
    /\ m_last' = NoCall
    /\ UNCHANGED << config_file, environ >>
    /\ UNCHANGED << file_state, gateway_file, gateway_data, gateway_config,
                    injected_configs, service_settings, target_env, operator_env,
                    calls >>
    /\ UNCHANGED << loaderVars, filterVars, readVars >>

(***************************************************************************)
(* Actions of the configuration manager.                                   *)
(***************************************************************************)
SetManager(st) ==
    /\ gateway_data' = st.gateway
    /\ config_data' = st.services
    /\ environ' = st.environ
    /\ injected_configs' = st.injected_configs
    /\ service_settings' = st.service_settings
    /\ target_env' = st.target_env

\* The file on disk as load_config will find it.
ConfigFile == File(file_state, gateway_file, config_file)

\* The operator replaces, removes or damages the file.
WriteFile(file) ==
    /\ calls < MaxCalls
    /\ calls' = calls + 1
    /\ file # ConfigFile
    /\ file_state' = file.state
    /\ gateway_file' = file.gateway
    /\ config_file' = file.services
    /\ c_last' = NoRead
    /\ m_last' = NoCall
    /\ UNCHANGED << config_data, environ, gateway_data, gateway_config,
                    injected_configs, service_settings, target_env, operator_env >>
    /\ UNCHANGED << loaderVars, filterVars, readVars >>

\* What APIGateway.gateway_config names once config_data has been replaced.
DetachGateway(ref, section) == Detached(DerefGateway(ref, section))

\* DynamicConfigLoader.reload_config.
ReloadConfig ==
    /\ calls < MaxCalls
    /\ calls' = calls + 1
    /\ SetManager(reload_config(Manager, ConfigFile))
    /\ gateway_config' = DetachGateway(gateway_config, gateway_data)
    /\ c_last' = NoRead
    /\ m_last' = Call("reload_config", << >>, EmptyDict, FALSE)
    /\ UNCHANGED << config_file, file_state, gateway_file, operator_env >>
    /\ UNCHANGED << loaderVars, filterVars, readVars >>

\* UnifiedConfigManager.reload_all_configs.
ReloadAllConfigs ==
    /\ calls < MaxCalls
    /\ calls' = calls + 1
    /\ SetManager(reload_all_configs(Manager, ConfigFile))
    /\ gateway_config' = DetachGateway(gateway_config, gateway_data)
    /\ c_last' = NoRead
    /\ m_last' = Call("reload_all_configs", << >>, EmptyDict, FALSE)
    /\ UNCHANGED << config_file, file_state, gateway_file, operator_env >>
    /\ UNCHANGED << loaderVars, filterVars, readVars >>

\* get_gateway_config of the loader or of the manager (line 246-248).
GetGatewayConfig ==
    /\ calls < MaxCalls
    /\ calls' = calls + 1
    /\ \E r \in { get_gateway_config(gateway_data, environ) } :
           /\ gateway_data' = r.section
           /\ m_last' = Call("get_gateway_config", << >>, r.ret, r.raised)
    /\ c_last' = NoRead
    /\ UNCHANGED << config_file, config_data, environ, file_state, gateway_file,
                    gateway_config, injected_configs, service_settings,
                    target_env, operator_env >>
    /\ UNCHANGED << loaderVars, filterVars, readVars >>

GetConfigStatus ==
    /\ calls < MaxCalls
    /\ calls' = calls + 1
    /\ \E r \in { get_config_status(Manager) } :
           /\ SetManager(r.st)
           /\ m_last' = Call("get_config_status", << >>, r.ret, r.raised)
    /\ c_last' = NoRead
    /\ UNCHANGED << config_file, file_state, gateway_file, gateway_config,
                    operator_env >>
    /\ UNCHANGED << loaderVars, filterVars, readVars >>

InjectServiceConfig(service_name, into_os_environ) ==
    /\ calls < MaxCalls
    /\ calls' = calls + 1
    /\ \E r \in { inject_service_config(Manager, service_name, into_os_environ) } :
           /\ SetManager(r.st)
           /\ m_last' = Call("inject_service_config", service_name,
                             Deref(r.ret, r.st.services, service_name), FALSE)
    /\ c_last' = NoRead
    /\ UNCHANGED << config_file, file_state, gateway_file, gateway_config,
                    operator_env >>
    /\ UNCHANGED << loaderVars, filterVars, readVars >>

InjectAllConfigs(into_os_environ) ==
    /\ calls < MaxCalls
    /\ calls' = calls + 1
    /\ \E r \in { inject_all_configs(Manager, into_os_environ) } :
           /\ SetManager(r.st)
           /\ m_last' = Call("inject_all_configs", << >>,
                             [n \in DOMAIN r.ret |-> Deref(r.ret[n], r.st.services, n)],
                             FALSE)
    /\ c_last' = NoRead
    /\ UNCHANGED << config_file, file_state, gateway_file, gateway_config,
                    operator_env >>
    /\ UNCHANGED << loaderVars, filterVars, readVars >>

\* get_injected_config (config_manager.py:198-200): the dict, or None.
GetInjectedConfig(service_name) ==
    /\ calls < MaxCalls
    /\ calls' = calls + 1
    /\ m_last' = IF service_name \in DOMAIN injected_configs
                 THEN Call("get_injected_config", service_name,
                           [is_none |-> FALSE,
                            dict |-> Deref(injected_configs[service_name],
                                           config_data, service_name)], FALSE)
                 ELSE Call("get_injected_config", service_name,
                           [is_none |-> TRUE, dict |-> EmptyDict], FALSE)
    /\ c_last' = NoRead
    /\ UNCHANGED << config_file, config_data, environ, file_state, gateway_file,
                    gateway_data, gateway_config, injected_configs,
                    service_settings, target_env, operator_env >>
    /\ UNCHANGED << loaderVars, filterVars, readVars >>

SetupServiceConfig(service_name) ==
    /\ calls < MaxCalls
    /\ calls' = calls + 1
    /\ \E r \in { setup_service_config(Manager, service_name) } :
           /\ SetManager(r.st)
           /\ m_last' = Call("setup_service_config", service_name,
                             Deref(r.ret, r.st.services, service_name), FALSE)
    /\ c_last' = NoRead
    /\ UNCHANGED << config_file, file_state, gateway_file, gateway_config,
                    operator_env >>
    /\ UNCHANGED << loaderVars, filterVars, readVars >>

SetupAllServices ==
    /\ calls < MaxCalls
    /\ calls' = calls + 1
    /\ \E r \in { setup_all_services(Manager) } :
           /\ SetManager(r.st)
           /\ m_last' = Call("setup_all_services", << >>,
                             [n \in DOMAIN r.ret |-> Deref(r.ret[n], r.st.services, n)],
                             FALSE)
    /\ c_last' = NoRead
    /\ UNCHANGED << config_file, file_state, gateway_file, gateway_config,
                    operator_env >>
    /\ UNCHANGED << loaderVars, filterVars, readVars >>

ValidateServiceConfig(service_name) ==
    /\ calls < MaxCalls
    /\ calls' = calls + 1
    /\ m_last' = Call("validate_service_config", service_name,
                      validate_service_config(Manager, service_name), FALSE)
    /\ c_last' = NoRead
    /\ UNCHANGED << config_file, config_data, environ, file_state, gateway_file,
                    gateway_data, gateway_config, injected_configs,
                    service_settings, target_env, operator_env >>
    /\ UNCHANGED << loaderVars, filterVars, readVars >>

(***************************************************************************)
(* APIGateway (main.py:52-296).                                            *)
(***************************************************************************)
\* ROUTER_CONFIGS (main.py:40-49): one descriptor, without endpoint filters.
ROUTER_CONFIGS == << RouterConfig("a", NoneSet, NoneSet) >>

\* config_name of a descriptor (router_loader.py:40-41, main.py:47): the
\* service's name, as the string of characters the configuration is keyed by.
config_name(config) == << config.service_name >>

\* bool(value)
PyTruthy(value) ==
    IF value.type = "bool" THEN value.b
    ELSE IF value.type = "int" THEN value.i # 0
    ELSE IF value.type = "float" THEN value.i # 0 \/ value.s # << >>
    ELSE IF value.type = "str" THEN value.s # << >>
    ELSE FALSE

\* A manager right after UnifiedConfigManager.__init__ (lines 209-212, 41-50).
NewManager(file, env) ==
    [gateway |-> load_config(file).gateway, services |-> load_config(file).services,
     environ |-> env, injected_configs |-> EmptyDict,
     service_settings |-> EmptyDict, target_env |-> EmptyDict]

RECURSIVE setup_service_configurations(_, _)
\* _setup_service_configurations (main.py:220-243).
setup_service_configurations(M, todo) ==
    IF todo = << >> THEN M
    ELSE Only({ setup_service_configurations(s.st, Tail(todo)) :
                s \in { setup_service_config(M, config_name(Head(todo))) } })

\* setup_components (main.py:63-77): the manager after it, the dict
\* gateway_config refers to, and whether get_gateway_config raised (the module
\* then fails to import).
setup_components(file, env) ==
    Only({ [M |-> setup_service_configurations(
                      [NewManager(file, env) EXCEPT !.gateway = g.section],
                      ROUTER_CONFIGS),
            gateway_config |-> IF g.section.present THEN Live ELSE Detached(g.ret),
            raised |-> g.raised] :
           g \in { get_gateway_config(load_config(file).gateway, env) } })

\* The descriptors of ROUTER_CONFIGS named service_name (main.py:204-208).
Declared(service_name) ==
    { i \in 1..Len(ROUTER_CONFIGS) : ROUTER_CONFIGS[i].service_name = service_name }

\* The debug gate is not looked at.
reload_service_ungated(debug, L, service_name, unit, attach_ok) ==
    IF Declared(service_name) = {}
    THEN [st |-> L, ret |-> "404", raised |-> FALSE]
    ELSE Only({ [st |-> r.st,
                 ret |-> IF r.raised THEN "raised"
                         ELSE IF r.ret THEN "200" ELSE "500",
                 raised |-> r.raised] :
                r \in { reload_router(L, ROUTER_CONFIGS[CHOOSE i \in Declared(service_name) :
                                           \A j \in Declared(service_name) : i <= j],
                                      unit, attach_ok) } })

\* _reload_service (main.py:195-218): the loader's fields after, and the answer:
\* the status of the HTTPException raised, "200" for the message returned, or
\* "raised" when an exception of reload_router leaves the method.
reload_service(debug, L, service_name, unit, attach_ok) ==
    IF ~debug
    THEN [st |-> L, ret |-> "403", raised |-> FALSE]
    ELSE IF Declared(service_name) = {}
    THEN [st |-> L, ret |-> "404", raised |-> FALSE]
    ELSE Only({ [st |-> r.st,
                 ret |-> IF r.raised THEN "raised"
                         ELSE IF r.ret THEN "200" ELSE "500",
                 raised |-> r.raised] :
                r \in { reload_router(L, ROUTER_CONFIGS[CHOOSE i \in Declared(service_name) :
                                           \A j \in Declared(service_name) : i <= j],
                                      unit, attach_ok) } })

\* A loader right after DynamicRouterLoader.__init__ (router_loader.py:48-51).
NewLoader ==
    [loaded_routers |-> EmptyDict, failed_loads |-> EmptyDict,
     router_configs |-> << >>, app_routers |-> << >>, original_routes |-> << >>]

RECURSIVE load_all_from(_, _)
\* The loop of load_all_routers from iteration S.idx on; meets[i] is what the
\* i-th load attempt meets.
load_all_from(S, meets) ==
    IF S.idx > Len(S.configs) THEN S
    ELSE Only({ load_all_from(T, meets) :
                T \in { load_all_iteration(S, meets[S.idx][1], meets[S.idx][2]) } })

\* _load_routers (main.py:245-267) on a new loader: the loader's fields after
\* load_all_routers(app, ROUTER_CONFIGS).
load_routers(meets) ==
    load_all_from([L |-> NewLoader, configs |-> ROUTER_CONFIGS, idx |-> 1,
                   results |-> EmptyDict, attempts |-> << >>], meets).L

\* get_status (router_loader.py:242-249).
get_status(L) ==
    [loaded_routers |-> DOMAIN L.loaded_routers, failed_loads |-> L.failed_loads,
     total_loaded |-> Cardinality(DOMAIN L.loaded_routers),
     total_failed |-> Cardinality(DOMAIN L.failed_loads)]

\* self.gateway_config.get("debug", False) of main.py:197.
GatewayDebug ==
    PyTruthy(DictGet(DerefGateway(gateway_config, gateway_data), "debug",
                     PyBool(FALSE)))

\* POST /gateway/reload/{service_name} (main.py:168-171).
ReloadService(service_name, unit, attach_ok) ==
    /\ pc = "idle"
    /\ calls < MaxCalls
    /\ calls' = calls + 1
    /\ loads < MaxLoads
    /\ \E r \in { reload_service(GatewayDebug, Loader, service_name, unit, attach_ok) } :
           /\ SetLoader(r.st)
           /\ loads' = IF r.ret \in { "403", "404" } THEN loads ELSE loads + 1
           /\ last' = Last("reload_service",
                           RouterConfig(service_name, NoneSet, NoneSet), unit,
                           r.ret, r.raised)
    /\ m_last' = Call("reload_service", << >>, EmptyDict, FALSE)
    /\ NoLoadAll
    /\ UNCHANGED << filterVars, configVars, readVars >>
    /\ UNCHANGED << file_state, gateway_file, gateway_data, gateway_config,
                    injected_configs, service_settings, target_env, operator_env >>

\* GET /gateway/status (main.py:154-161).  The response holds the dict
\* gateway_config refers to, as it is once config_status has been computed.
GatewayStatus ==
    /\ pc = "idle"
    /\ calls < MaxCalls
    /\ calls' = calls + 1
    /\ \E r \in { get_config_status(Manager) } :
           /\ SetManager(r.st)
           /\ m_last' = Call("gateway_status", << >>,
                             [gateway_config |->
                                  DerefGateway(gateway_config, r.st.gateway),
                              router_status |-> get_status(Loader),
                              config_status |-> r.ret],
                             r.raised)
    /\ c_last' = NoRead
    /\ UNCHANGED << config_file, file_state, gateway_file, gateway_config,
                    operator_env >>
    /\ UNCHANGED << loaderVars, filterVars, readVars >>

(***************************************************************************)
(* Specifications.                                                         *)
(***************************************************************************)
\* DynamicRouterLoader.__init__ (router_loader.py:48-51).
InitLoader ==
    /\ loaded_routers = EmptyDict
    /\ failed_loads = EmptyDict
    /\ router_configs = << >>
    /\ app_routers = << >>
    /\ original_routes = << >>
    /\ pc = "idle"
    /\ configs = << >>
    /\ idx = 1
    /\ results = EmptyDict
    /\ attempts = << >>
    /\ loads = 0
    /\ last = Last("init", NoConfig, NoUnit, "None", FALSE)

IdleFilter ==
    /\ f_routes = << >>
    /\ f_config = NoConfig
    /\ f_result = NotCalled

IdleConfig ==
    /\ config_file = EmptyDict
    /\ config_data = EmptyDict
    /\ environ = EmptyDict
    /\ c_last = NoRead

\* No reload_router is in progress and no status has been read.
NoReader ==
    /\ r_pre = << FALSE, FALSE >>
    /\ seen = NotSeen

\* No manager and no gateway have been constructed.
IdleManager ==
    /\ file_state = "ok"
    /\ gateway_file = NoSection
    /\ gateway_data = NoSection
    /\ gateway_config = Detached(EmptyDict)
    /\ injected_configs = EmptyDict
    /\ service_settings = EmptyDict
    /\ target_env = EmptyDict
    /\ operator_env = {}
    /\ calls = 0
    /\ m_last = NoCall

Init == InitLoader /\ IdleFilter /\ IdleConfig /\ IdleManager /\ NoReader

\* What one load attempt meets: the unit, and whether the transport accepts an
\* APIRouter (the transport is only asked for a truthy handler).
Attempts ==
    { << unit, TRUE >> : unit \in Units }
    \cup { << unit, FALSE >> : unit \in { u \in Units : u.obj.kind = "APIRouter" } }

Next ==
    \/ \E config \in Descriptors, unit \in Units : LoadRouterFromPath(config, unit)
    \/ \E config \in Descriptors, a \in Attempts : LoadRouter(config, a[1], a[2])
    \/ \E config \in Descriptors, a \in Attempts : ReloadRouter(config, a[1], a[2])
    \/ \E list \in ConfigLists : LoadAllStart(list)
    \/ \E a \in Attempts : LoadAllIter(a[1], a[2])
    \/ LoadAllReturn

Spec == Init /\ [][Next]_vars

\* The loader called from two threads: one loads and reloads, one reads the
\* status.
NextThreads ==
    \/ \E config \in Descriptors, unit \in Units : LoadRouterFromPath(config, unit)
    \/ \E config \in Descriptors, a \in Attempts : LoadRouter(config, a[1], a[2])
    \/ \E config \in Descriptors : ReloadEnter(config)
    \/ ReloadDelLoaded
    \/ ReloadDelFailed
    \/ \E a \in Attempts : ReloadLoad(a[1], a[2])
    \/ \E name \in Services : GetServicesStatus(name)

SpecThreads == Init /\ [][NextThreads]_vars

\* load_all_routers runs synchronously: once entered, its loop goes on to the next
\* descriptor and to its return statement (a load attempt returns or raises).
SpecFair ==
    /\ Init
    /\ [][Next]_vars
    /\ WF_vars(\E a \in Attempts : LoadAllIter(a[1], a[2]))
    /\ WF_vars(LoadAllReturn)

\* The filter on every route collection and descriptor within the bounds.
InitFilter ==
    /\ NoReader
    /\ InitLoader
    /\ IdleConfig
    /\ f_routes \in RouteLists
    /\ f_config \in { RouterConfig("a", i, e) : i \in OptionalTokenSets,
                                                e \in OptionalTokenSets }
    /\ f_result = NotCalled
    /\ IdleManager

NextFilter == FilterCall \/ FilterByLoad \/ FilterByReload

SpecFilter == InitFilter /\ [][NextFilter]_vars

\* DynamicConfigLoader.__init__ on a file that exists and parses: config_data is
\* the file's content (config_manager.py:41-58); the environment has no override.
InitConfig ==
    /\ NoReader
    /\ InitLoader
    /\ IdleFilter
    /\ config_file \in ConfigFiles
    /\ config_data = config_file
    /\ environ = EmptyDict
    /\ c_last = NoRead
    /\ IdleManager

NextConfig ==
    \/ \E name \in EnvNames, value \in EnvStrings : SetEnv(name, value)
    \/ \E name \in EnvNames : DelEnv(name)
    \/ \E service_name \in { S_svc } : GetServiceConfig(service_name)

SpecConfig == InitConfig /\ [][NextConfig]_vars

\* The gateway section of the file: absent, empty, the one of the tests
\* (test_config_manager.py:69-75), the one written before a reload
\* (test_config_manager.py:208-211), one that only turns debug on, and one
\* whose port is no number.
GatewaySections ==
    { NoSection, Section(EmptyDict),
      Section([host |-> PyStr(H_local), port |-> PyInt(9000),
               debug |-> PyBool(FALSE), title |-> PyStr(T_test)]),
      Section([host |-> PyStr(H_new), port |-> PyInt(7000)]),
      Section([debug |-> PyBool(TRUE)]),
      Section([port |-> PyStr(E_abc)]) }

ServiceSections == { EmptyDict, [service \in {S_svc} |-> [key \in {K_timeout} |-> PyInt(30)]] }

GatewayFiles ==
    { File("missing", NoSection, EmptyDict), File("invalid", NoSection, EmptyDict),
      File("unreadable", NoSection, EmptyDict) }
    \cup { File("ok", g, sv) : g \in GatewaySections, sv \in ServiceSections }

\* The overrides of the gateway section the operator may set.
GatewayOverrides ==
    { << N_GATEWAY_HOST, H_env >>, << N_GATEWAY_PORT, E_9000 >>,
      << N_GATEWAY_PORT, E_abc >>, << N_GATEWAY_DEBUG, E_True >>,
      << N_GATEWAY_DEBUG, E_yes >> }

GatewayNames == { N_GATEWAY_HOST, N_GATEWAY_PORT, N_GATEWAY_DEBUG }

\* DynamicConfigLoader.__init__ (config_manager.py:41-50) on any of the files.
InitGateway ==
    /\ NoReader
    /\ InitLoader
    /\ IdleFilter
    /\ \E file \in GatewayFiles :
           /\ file_state = file.state
           /\ gateway_file = file.gateway
           /\ config_file = file.services
           /\ gateway_data = load_config(file).gateway
           /\ config_data = load_config(file).services
    /\ environ = EmptyDict
    /\ c_last = NoRead
    /\ gateway_config = Detached(EmptyDict)
    /\ injected_configs = EmptyDict
    /\ service_settings = EmptyDict
    /\ target_env = EmptyDict
    /\ operator_env = {}
    /\ calls = 0
    /\ m_last = Call("load_config", << >>, EmptyDict, FALSE)

NextGateway ==
    \/ \E o \in GatewayOverrides : SetEnv(o[1], o[2])
    \/ \E name \in GatewayNames : DelEnv(name)
    \/ \E file \in GatewayFiles : WriteFile(file)
    \/ ReloadConfig
    \/ GetGatewayConfig
    \/ GetConfigStatus

SpecGateway == InitGateway /\ [][NextGateway]_vars

\* The configuration loader on a file that stays as it was loaded: the
\* environment changes, the gateway config is read, the file is loaded again.
NextGatewayRead ==
    \/ \E o \in GatewayOverrides : SetEnv(o[1], o[2])
    \/ \E name \in GatewayNames : DelEnv(name)
    \/ ReloadConfig
    \/ GetGatewayConfig
    \/ GetConfigStatus

SpecGatewayRead == InitGateway /\ [][NextGatewayRead]_vars

\* The services of the manager's runs: svc with the key timeout, and a second
\* service; a third name is in no file.
S_db == << "d", "b" >>
K_url == << "u", "r", "l" >>
S_other == << "x" >>

OneService(v) == [service \in {S_svc} |-> [key \in {K_timeout} |-> v]]

TwoServices ==
    [service \in {S_svc, S_db} |->
        IF service = S_svc THEN [key \in {K_timeout} |-> PyInt(30)]
        ELSE [key \in {K_url} |-> PyStr(E_abc)]]

ManagerFiles ==
    { File("missing", NoSection, EmptyDict) }
    \cup { File("ok", Section([host |-> PyStr(H_local), port |-> PyInt(9000),
                               debug |-> PyBool(FALSE), title |-> PyStr(T_test)]), sv) :
              sv \in { OneService(v) : v \in { PyInt(30), PyInt(60), NoneValue } }
                     \cup { TwoServices } }

ManagerNames == { S_svc, S_db, S_other }

ManagerOverrides == { << EnvKey(S_svc, K_timeout), E_45 >>,
                      << EnvKey(S_svc, K_timeout), E_abc >> }

\* UnifiedConfigManager.__init__ (config_manager.py:209-212) on any of the files,
\* in an environment where the operator has set an override or none.
InitManager ==
    /\ NoReader
    /\ InitLoader
    /\ IdleFilter
    /\ \E file \in ManagerFiles :
           /\ file_state = file.state
           /\ gateway_file = file.gateway
           /\ config_file = file.services
           /\ gateway_data = load_config(file).gateway
           /\ config_data = load_config(file).services
    /\ \/ environ = EmptyDict /\ operator_env = {}
       \/ \E o \in ManagerOverrides :
              /\ environ = DictSet(EmptyDict, o[1], o[2])
              /\ operator_env = { o[1] }
    /\ c_last = NoRead
    /\ gateway_config = Detached(EmptyDict)
    /\ injected_configs = EmptyDict
    /\ service_settings = EmptyDict
    /\ target_env = EmptyDict
    /\ calls = 0
    /\ m_last = Call("load_config", << >>, EmptyDict, FALSE)

NextManager ==
    \/ \E file \in ManagerFiles : WriteFile(file)
    \/ ReloadConfig
    \/ ReloadAllConfigs
    \/ \E name \in ManagerNames : GetServiceConfig(name)
    \/ \E name \in ManagerNames, os \in BOOLEAN : InjectServiceConfig(name, os)
    \/ \E os \in BOOLEAN : InjectAllConfigs(os)
    \/ \E name \in ManagerNames : GetInjectedConfig(name)
    \/ \E name \in ManagerNames : SetupServiceConfig(name)
    \/ SetupAllServices
    \/ \E name \in ManagerNames : ValidateServiceConfig(name)

SpecManager == InitManager /\ [][NextManager]_vars

\* The files the gateway starts on: none, one without a gateway section, and
\* one whose gateway section turns debug off or on, each with or without
\* settings for the service of ROUTER_CONFIGS.
AdminFiles ==
    { File("missing", NoSection, EmptyDict) }
    \cup { File("ok", g, sv) :
              g \in { NoSection,
                      Section([host |-> PyStr(H_local), port |-> PyInt(9000),
                               debug |-> PyBool(FALSE), title |-> PyStr(T_test)]),
                      Section([debug |-> PyBool(TRUE)]) },
              sv \in { EmptyDict,
                       [service \in { config_name(ROUTER_CONFIGS[1]) } |->
                           [key \in {K_timeout} |-> PyInt(30)]] } }

AdminOverrides ==
    { << N_GATEWAY_DEBUG, E_True >>, << N_GATEWAY_DEBUG, E_false >>,
      << N_GATEWAY_PORT, E_abc >> }

\* The names a reload is asked for: the declared service and an undeclared one.
AdminNames == { ROUTER_CONFIGS[1].service_name, "b" }

\* The module level of main.py (lines 298-309): a gateway whose
\* setup_components has returned, and an app configure_app has composed.
InitAdmin ==
    /\ NoReader
    /\ \E meets \in [1..Len(ROUTER_CONFIGS) -> Attempts] :
       \E L \in { load_routers(meets) } :
           /\ loaded_routers = L.loaded_routers
           /\ failed_loads = L.failed_loads
           /\ router_configs = L.router_configs
           /\ app_routers = L.app_routers
           /\ original_routes = L.original_routes
    /\ pc = "idle"
    /\ configs = << >>
    /\ idx = 1
    /\ results = EmptyDict
    /\ attempts = << >>
    /\ loads = Len(ROUTER_CONFIGS)
    /\ last = Last("load_all_routers", NoConfig, NoUnit, "results", FALSE)
    /\ IdleFilter
    /\ \E file \in AdminFiles, env \in { EmptyDict, DictSet(EmptyDict, N_GATEWAY_DEBUG, E_True) } :
       \E s \in { setup_components(file, env) } :
           /\ ~s.raised
           /\ file_state = file.state
           /\ gateway_file = file.gateway
           /\ config_file = file.services
           /\ gateway_data = s.M.gateway
           /\ config_data = s.M.services
           /\ environ = s.M.environ
           /\ injected_configs = s.M.injected_configs
           /\ service_settings = s.M.service_settings
           /\ target_env = s.M.target_env
           /\ gateway_config = s.gateway_config
           /\ operator_env = DOMAIN env
    /\ c_last = NoRead
    /\ calls = 0
    /\ m_last = Call("setup_components", << >>, EmptyDict, FALSE)

\* The administrative routes are served; the operator changes the environment.
NextAdmin ==
    \/ \E name \in AdminNames, a \in Attempts : ReloadService(name, a[1], a[2])
    \/ GatewayStatus
    \/ \E o \in AdminOverrides : SetEnv(o[1], o[2])
    \/ \E name \in GatewayNames : DelEnv(name)

SpecAdmin == InitAdmin /\ [][NextAdmin]_vars

\* A manager on a file that stays as it was loaded, for every kind of file
\* value: services are set up and read.
SetupFiles ==
    { File("ok", NoSection, sv) : sv \in ConfigFiles \cup { TwoServices } }

InitSetup ==
    /\ NoReader
    /\ InitLoader
    /\ IdleFilter
    /\ \E file \in SetupFiles :
           /\ file_state = file.state
           /\ gateway_file = file.gateway
           /\ config_file = file.services
           /\ gateway_data = load_config(file).gateway
           /\ config_data = load_config(file).services
    /\ \/ environ = EmptyDict /\ operator_env = {}
       \/ \E o \in ManagerOverrides :
              /\ environ = DictSet(EmptyDict, o[1], o[2])
              /\ operator_env = { o[1] }
    /\ c_last = NoRead
    /\ gateway_config = Detached(EmptyDict)
    /\ injected_configs = EmptyDict
    /\ service_settings = EmptyDict
    /\ target_env = EmptyDict
    /\ calls = 0
    /\ m_last = Call("load_config", << >>, EmptyDict, FALSE)

NextSetup ==
    \/ \E name \in ManagerNames : GetServiceConfig(name)
    \/ \E name \in ManagerNames : SetupServiceConfig(name)
    \/ SetupAllServices

SpecSetup == InitSetup /\ [][NextSetup]_vars

\* The configuration loader read under overrides of a key of the file, of a
\* key that is not in the file, and of a service that is not in the file.
KeysEnvNames ==
    { EnvKey(S_svc, K_timeout), EnvKey(S_svc, K_url), EnvKey(S_other, K_timeout) }

InitKeys ==
    /\ NoReader
    /\ InitLoader
    /\ IdleFilter
    /\ config_file \in ConfigFiles \cup { TwoServices, EmptyDict }
    /\ config_data = config_file
    /\ environ = EmptyDict
    /\ c_last = NoRead
    /\ IdleManager

NextKeys ==
    \/ \E name \in KeysEnvNames, value \in { E_45, E_abc } : SetEnv(name, value)
    \/ \E name \in KeysEnvNames : DelEnv(name)
    \/ \E service_name \in ManagerNames : GetServiceConfig(service_name)
    \/ GetAllServiceConfigs

SpecKeys == InitKeys /\ [][NextKeys]_vars

(***************************************************************************)
(* Properties of the Mount Registry and of load_all_routers.               *)
(***************************************************************************)
LoadOps == { "load_router_from_path", "load_router", "reload_router",
             "load_all_iteration" }

NamesOf(list) == { list[i].service_name : i \in 1..Len(list) }

\* C1: mutual exclusivity of the Mount Registry.  At every point between the
\* loader's operations no service name is a key of both loaded_routers and
\* failed_loads.
C1_MutualExclusivity ==
    (DOMAIN loaded_routers) \cap (DOMAIN failed_loads) = {}

\* C2: the result map of load_all_routers.  When load_all_routers returns, the
\* key set of the map it returns is exactly the set of the service names that
\* occur in the descriptor list, whatever failed.
C2_ResultKeys ==
    last.op = "load_all_routers" => DOMAIN results = NamesOf(configs)

\* load_all_routers has returned for two descriptors of two services, one of
\* which failed.
C2_Witness ==
    /\ last.op = "load_all_routers"
    /\ Len(configs) >= 2
    /\ configs[1].service_name # configs[2].service_name
    /\ ~results[configs[1].service_name]
    /\ results[configs[2].service_name]

C4_FailureRecorded ==
    last.op = "load_all_routers" =>
        \A n \in DOMAIN results :
            ~results[n] => n \in DOMAIN failed_loads /\ n \notin DOMAIN loaded_routers

\* C5: capability check.  After a load attempt whose unit exports, under the
\* named attribute, an object that is no mountable route collection, the service
\* has a failure recorded and is not in the mounted set, with or without filters.
C5_CapabilityCheck ==
    ( /\ last.op \in LoadOps
      /\ last.unit.load = "ok"
      /\ last.unit.obj.kind \in { "opaque", "falsy" } )
    => /\ last.config.service_name \in DOMAIN failed_loads
       /\ last.config.service_name \notin DOMAIN loaded_routers

(***************************************************************************)
(* Properties of the endpoint filter.  f_result.new_routes is the filtered *)
(* collection: what the direct call returned, or the handler a load or a   *)
(* reload recorded for the descriptor.                                     *)
(***************************************************************************)
\* A token matches a route: it is the route's path, the route's name, or a part
\* of the route's path.
TokenMatches(token, route) ==
    token = route.path \/ token = route.name \/ IsSubstring(token, route.path)

MatchesSome(route, tokens) == \E token \in tokens : TokenMatches(token, route)

\* C6: exclude wins.  With a non-empty include set and a non-empty exclude set,
\* a route that matches an include token and an exclude token is absent from the
\* filtered collection.
C6_ExcludeWins ==
    ( /\ f_result.called
      /\ ~f_config.include_endpoints.is_none /\ f_config.include_endpoints.set # {}
      /\ ~f_config.exclude_endpoints.is_none /\ f_config.exclude_endpoints.set # {} )
    => \A route \in Range(f_routes) :
           ( /\ MatchesSome(route, f_config.include_endpoints.set)
             /\ MatchesSome(route, f_config.exclude_endpoints.set) )
           => route \notin Range(f_result.new_routes)

\* The filter has run on /users/{id}, which the include token "/users" matches as
\* a part of the path and the exclude token "/users/{id}" matches exactly, and on
\* /users, which only the include token matches: only /users is kept.
C6_Witness ==
    /\ f_result.called
    /\ f_config.include_endpoints = Some({P_users})
    /\ f_config.exclude_endpoints = Some({P_user_id})
    /\ f_routes = << R_user_id, R_users >>
    /\ f_result.new_routes = << R_users >>

\* C7 as stated: the filtered collection is the original with exactly the routes
\* kept that match an include token when an include set is present (is not None)
\* and match no exclude token when an exclude set is present (is not None).
C7_FilterResultAsStated ==
    f_result.called =>
        LET Keep(route) ==
                /\ \/ f_config.include_endpoints.is_none
                   \/ MatchesSome(route, f_config.include_endpoints.set)
                /\ \/ f_config.exclude_endpoints.is_none
                   \/ ~MatchesSome(route, f_config.exclude_endpoints.set)
        IN  f_result.new_routes = SelectSeq(f_routes, Keep)

\* C7, amended: the filtered collection is the original, in its order, with
\* exactly the routes kept that match an include token when the include set is
\* present and not empty, and match no exclude token when the exclude set is
\* present and not empty; and routes /users, /users/{id}, /admin with include
\* {"/users"} and exclude {"/users/{id}"} give exactly /users.
C7_FilterResult ==
    f_result.called =>
        LET Keep(route) ==
                /\ \/ f_config.include_endpoints.is_none
                   \/ f_config.include_endpoints.set = {}
                   \/ MatchesSome(route, f_config.include_endpoints.set)
                /\ \/ f_config.exclude_endpoints.is_none
                   \/ f_config.exclude_endpoints.set = {}
                   \/ ~MatchesSome(route, f_config.exclude_endpoints.set)
        IN  /\ f_result.new_routes = SelectSeq(f_routes, Keep)
            /\ ( /\ f_routes = << R_users, R_user_id, R_admin >>
                 /\ f_config.include_endpoints = Some({P_users})
                 /\ f_config.exclude_endpoints = Some({P_user_id}) )
               => f_result.new_routes = << R_users >>

\* The filter has run on the example of the claim.
C7_Witness ==
    /\ f_result.called
    /\ f_routes = << R_users, R_user_id, R_admin >>
    /\ f_config.include_endpoints = Some({P_users})
    /\ f_config.exclude_endpoints = Some({P_user_id})
    /\ f_result.new_routes = << R_users >>

\* C8: the filter does not mutate the original.  After the direct call, a load
\* or a reload, with any include and exclude sets, the collection the unit
\* exported has the routes it had before, in the same order.
C8_OriginalUnchanged ==
    f_result.called => f_result.original_routes = f_routes

\* A reload has filtered routes out of the collection it recorded.
C8_Witness ==
    /\ f_result.called
    /\ last.op = "reload_router"
    /\ Truthy(f_config.exclude_endpoints)
    /\ Len(f_result.new_routes) < Len(f_routes)
    /\ f_result.original_routes = f_routes

(***************************************************************************)
(* Properties of the configuration store.                                  *)
(***************************************************************************)
\* The strings that spell a boolean: the four the loader takes for true and
\* their opposites.
BoolWords == { E_true, E_one, E_yes, E_on, E_false, E_zero, E_no, E_off }

\* The string spells a value of the type.
Coercible(str, type) ==
    CASE type = "bool" -> Lower(str) \in BoolWords
      [] type = "int" -> ParseInt(str).ok
      [] type = "float" -> ParseFloat(str).ok
      [] OTHER -> TRUE

\* C9: coercion failure keeps the file value.  After get_service_config, for a
\* key whose file value is a boolean, an integer or a float and whose override
\* string does not spell a value of that type, the effective value is the file
\* value.
C9_CoercionFailureKeepsFile ==
    c_last.op = "get_service_config" =>
        \A key \in DOMAIN config_file[c_last.service] :
            LET file_value == config_file[c_last.service][key]
                name == EnvKey(c_last.service, key)
            IN  ( /\ file_value.type \in { "bool", "int", "float" }
                  /\ name \in DOMAIN environ
                  /\ ~Coercible(environ[name], file_value.type) )
                => c_last.ret[key] = file_value

\* C10: type preservation.  After get_service_config, the effective value of
\* every key has the type of the key's file value, whatever the override.
C10_TypePreserved ==
    c_last.op = "get_service_config" =>
        \A key \in DOMAIN config_file[c_last.service] :
            c_last.ret[key].type = config_file[c_last.service][key].type

\* C11: recomputation on every read.  With no reload in between, every read of
\* a service config returns, per key, the coerced environment value when the
\* override variable is set at the time of the read and the loaded file value
\* otherwise; after an override is set, read and removed, the next read returns
\* the file value again.
C11_RecomputedOnEveryRead ==
    c_last.op = "get_service_config" =>
        \A key \in DOMAIN config_file[c_last.service] :
            c_last.ret[key] =
                IF EnvKey(c_last.service, key) \in DOMAIN environ
                THEN convert_env_value(environ[EnvKey(c_last.service, key)],
                                       config_file[c_last.service][key])
                ELSE config_file[c_last.service][key]

\* C12: config fallback.  Once a nonexistent configuration file has been loaded
\* and while no gateway override is set, the effective gateway config has host
\* 0.0.0.0, port 8000 and debug disabled, and the service map is empty.
C12_ConfigFallback ==
    ( /\ m_last.op \in { "load_config", "reload_config" }
      /\ file_state = "missing"
      /\ GatewayNames \cap DOMAIN environ = {} )
    => LET g == get_gateway_config(gateway_data, environ)
       IN  /\ ~g.raised
           /\ g.ret["host"] = PyStr(H_any)
           /\ g.ret["port"] = PyInt(8000)
           /\ g.ret["debug"] = PyBool(FALSE)
           /\ config_data = EmptyDict

(***************************************************************************)
(* Properties of the configuration manager.                                *)
(***************************************************************************)
GatewayVar(key) ==
    IF key = "host" THEN N_GATEWAY_HOST
    ELSE IF key = "port" THEN N_GATEWAY_PORT ELSE N_GATEWAY_DEBUG

\* C18: a configuration reload replaces the file-backed data wholesale.  After
\* reload_config or reload_all_configs on a changed file, a read of a service
\* config returns the new file's value for every key the operator has not
\* overridden in the environment, also for services set up before the reload,
\* and so does a read of the gateway config.
C18_ReloadReplaces ==
    ( m_last.op \in { "reload_config", "reload_all_configs" } /\ file_state = "ok" )
    => /\ \A service \in DOMAIN config_file :
              /\ service \in DOMAIN config_data
              /\ \A key \in DOMAIN config_file[service] :
                     EnvKey(service, key) \notin operator_env
                     => get_service_config(config_data, environ, service).ret[key]
                            = config_file[service][key]
       /\ \A key \in { "host", "port", "debug" } \cap DOMAIN gateway_file.dict :
              GatewayVar(key) \notin operator_env
              => get_gateway_config(gateway_data, environ).ret[key]
                     = gateway_file.dict[key]

\* NAME_UPPERCASED + "_" + KEY_UPPERCASED
InjectedName(service_name, key) == Upper(service_name) \o << "_" >> \o Upper(key)

\* after is before with the variable of every key of every config of the map set
\* to the string form of the key's value, and no other variable set.
InjectionOf(before, after, service_configs) ==
    LET names == UNION { { InjectedName(n, key) : key \in DOMAIN service_configs[n] } :
                         n \in DOMAIN service_configs }
    IN  /\ DOMAIN after = (DOMAIN before) \cup names
        /\ \A n \in DOMAIN service_configs : \A key \in DOMAIN service_configs[n] :
               after[InjectedName(n, key)] = Str(service_configs[n][key])
        /\ \A var \in (DOMAIN before) \ names : after[var] = before[var]

InjectedInto(service_configs) ==
    \/ InjectionOf(environ, environ', service_configs) /\ target_env' = target_env
    \/ InjectionOf(target_env, target_env', service_configs) /\ environ' = environ

\* C19: injection.  inject_service_config(name, env) sets env[NAME_KEY] to the
\* string form of the effective value for every key of the service's config and
\* sets no other variable, returns the effective config and records it, so that
\* get_injected_config(name) returns it afterwards; get_injected_config of a
\* name never injected returns nothing (injected_configs holds exactly the names
\* injected so far); inject_all_configs does this for exactly the services of
\* the file.
C19_Injection ==
    [][ /\ m_last'.op = "inject_service_config"
           => /\ InjectedInto(DictSet(EmptyDict, m_last'.name, m_last'.ret))
              /\ m_last'.ret
                     = get_service_config(config_data, environ, m_last'.name).ret
              /\ DOMAIN injected_configs' = DOMAIN injected_configs \cup { m_last'.name }
              /\ Deref(injected_configs'[m_last'.name], config_data', m_last'.name)
                     = m_last'.ret
        /\ m_last'.op = "inject_all_configs"
           => /\ DOMAIN m_last'.ret = DOMAIN config_data
              /\ InjectedInto(m_last'.ret)
              /\ DOMAIN injected_configs' = DOMAIN injected_configs \cup DOMAIN config_data
              /\ \A n \in DOMAIN config_data :
                     Deref(injected_configs'[n], config_data', n) = m_last'.ret[n]
        /\ m_last'.op = "get_injected_config"
           => /\ m_last'.ret.is_none <=> m_last'.name \notin DOMAIN injected_configs
              /\ ~m_last'.ret.is_none
                 => m_last'.ret.dict = Deref(injected_configs[m_last'.name],
                                             config_data, m_last'.name)
              /\ injected_configs' = injected_configs
        /\ m_last'.op \in { "none", "validate_service_config", "get_gateway_config" }
           => DOMAIN injected_configs' = DOMAIN injected_configs
      ]_vars

\* A config with a key has been injected into the caller's dict, and one into
\* os.environ by inject_all_configs.
C19_Witness ==
    \/ /\ m_last.op = "inject_service_config"
       /\ m_last.ret # EmptyDict
       /\ InjectedName(m_last.name, K_timeout) \in DOMAIN target_env
    \/ /\ m_last.op = "inject_all_configs"
       /\ DOMAIN m_last.ret = { S_svc, S_db }
       /\ InjectedName(S_db, K_url) \in DOMAIN environ

\* C20: validation.  validate_service_config(name) returns valid = true with the
\* service name and its config once setup_service_config(name) has run for a
\* service of the file; for a service never set up it returns valid = false
\* with an error; it never raises.
C20_Validation ==
    m_last.op = "validate_service_config"
    => /\ ~m_last.raised
       /\ ( ( m_last.name \in DOMAIN service_settings
             /\ m_last.name \in DOMAIN config_data )
            => ( /\ m_last.ret.valid
                 /\ m_last.ret.service_name = m_last.name
                 /\ m_last.ret.has_config ) )
       /\ ( m_last.name \notin DOMAIN service_settings
            => ( ~m_last.ret.valid /\ m_last.ret.has_error ) )


(***************************************************************************)
(* Properties of the administrative surface.                               *)
(***************************************************************************)
\* This step is one reload request.
ReloadStep == m_last'.op = "reload_service" /\ calls' = calls + 1

\* This step is one status query.
StatusStep == m_last'.op = "gateway_status" /\ calls' = calls + 1

\* C13: a reload request made while the gateway is not in debug mode is refused
\* as forbidden, and leaves the registry and the attachments as they were.
C13_ReloadGated ==
    [][ (ReloadStep /\ ~GatewayDebug)
        => /\ last'.ret = "403"
           /\ UNCHANGED << loaded_routers, failed_loads, router_configs,
                           app_routers, original_routes >> ]_vars

\* A reload of the mounted service has been refused.
C13_Witness ==
    /\ m_last.op = "reload_service"
    /\ last.op = "reload_service"
    /\ last.ret = "403"
    /\ last.config.service_name \in DOMAIN loaded_routers
    /\ last.unit.load = "ok"
    /\ last.unit.obj.kind = "APIRouter"

\* C14: in debug mode, a reload of a name that heads no descriptor of the
\* declared list is answered not-found and changes no state, and a reload of a
\* declared service that attaches nothing is answered with the reload-failed
\* error.
C14_ReloadAnswers ==
    [][ (ReloadStep /\ GatewayDebug)
        => /\ Declared(last'.config.service_name) = {}
              => /\ last'.ret = "404"
                 /\ UNCHANGED << loaded_routers, failed_loads, router_configs,
                                 app_routers, original_routes >>
           /\ ( /\ Declared(last'.config.service_name) # {}
                /\ app_routers' = app_routers )
              => last'.ret = "500" ]_vars

\* C15: a status query changes neither the registry nor the configuration, and
\* a second query right after a first one returns what the first returned.
C15_StatusIdempotent ==
    [][ StatusStep
        => /\ UNCHANGED << loaded_routers, failed_loads, router_configs,
                           app_routers, original_routes >>
           /\ UNCHANGED << gateway_data, config_data, environ, injected_configs,
                           service_settings >>
           /\ DerefGateway(gateway_config, gateway_data)'
                = DerefGateway(gateway_config, gateway_data)
           /\ m_last.op = "gateway_status"
              => /\ m_last'.ret = m_last.ret
                 /\ m_last'.raised = m_last.raised ]_vars

(***************************************************************************)
(* Properties of reload_router and of the attachments.                     *)
(***************************************************************************)
\* This step is one call of reload_router.
ReloadRouterStep == last'.op = "reload_router" /\ loads' = loads + 1

\* The handler a successful attempt resolves.
Resolved(unit, config) ==
    IF Truthy(config.include_endpoints) \/ Truthy(config.exclude_endpoints)
    THEN Object("APIRouter",
                filter_router_endpoints(unit.obj.routes, config).new_routes,
                "filtered")
    ELSE unit.obj

\* What a failed attempt failed on.
NewCause(unit) ==
    IF unit.load = "import_error" THEN "import_error"
    ELSE IF unit.load = "no_attr" THEN "attribute_missing"
    ELSE "filter_error"

\* C16: reload replaces.  After reload_router(name) returns, name is mounted
\* with the newly resolved handler and not failed if the attempt succeeded, and
\* failed with the new cause and not mounted otherwise; the entries of every
\* other service are as before.
C16_ReloadReplaces ==
    [][ (ReloadRouterStep /\ ~last'.raised)
        => LET n == last'.config.service_name
           IN  /\ last'.ret = "True"
                  => /\ n \in DOMAIN loaded_routers'
                     /\ loaded_routers'[n] = Resolved(last'.unit, last'.config)
                     /\ n \notin DOMAIN failed_loads'
               /\ last'.ret = "False"
                  => /\ n \notin DOMAIN loaded_routers'
                     /\ n \in DOMAIN failed_loads'
                     /\ failed_loads'[n] = Cause(n, NewCause(last'.unit))
               /\ \A m \in Services \ {n} :
                      /\ (m \in DOMAIN loaded_routers') = (m \in DOMAIN loaded_routers)
                      /\ m \in DOMAIN loaded_routers
                         => loaded_routers'[m] = loaded_routers[m]
                      /\ (m \in DOMAIN failed_loads') = (m \in DOMAIN failed_loads)
                      /\ m \in DOMAIN failed_loads
                         => failed_loads'[m] = failed_loads[m] ]_vars

\* The attachments of service n on the app.
Attached(routers, n) ==
    Cardinality({ i \in 1..Len(routers) : routers[i].service = n })

\* The entries of service n in router_configs.
Mounts(cfgs, n) ==
    Cardinality({ i \in 1..Len(cfgs) : cfgs[i].service_name = n })

IsPrefix(s, t) == Len(s) <= Len(t) /\ SubSeq(t, 1, Len(s)) = s

\* C17: no unmount.  Every step only appends to the attachments and to
\* router_configs; a service has as many attachments as entries in
\* router_configs, one more after each attempt that succeeds and as many as
\* before after any other; after a failed reload of a service that was attached,
\* its attachments are all still there.
C17_NoUnmount ==
    [][ /\ IsPrefix(app_routers, app_routers')
        /\ IsPrefix(router_configs, router_configs')
        /\ \A n \in Services :
               /\ Attached(app_routers', n) = Mounts(router_configs', n)
               /\ loads' = loads + 1
                  => Attached(app_routers', n)
                       = Attached(app_routers, n)
                         + ( IF /\ last'.op \in { "load_router", "reload_router",
                                                  "load_all_iteration" }
                                /\ last'.ret = "True"
                                /\ last'.config.service_name = n
                             THEN 1 ELSE 0 )
        /\ ( /\ ReloadRouterStep
             /\ last'.ret = "False"
             /\ Attached(app_routers, last'.config.service_name) > 0 )
           => /\ Attached(app_routers', last'.config.service_name)
                   = Attached(app_routers, last'.config.service_name)
              /\ \A i \in 1..Len(app_routers) : app_routers'[i] = app_routers[i]
      ]_vars

\* A reload of an attached service has failed: the registry reports it failed
\* and not mounted, and its attachment is on the app.
C17_Witness ==
    /\ last.op = "reload_router"
    /\ last.ret = "False"
    /\ last.config.service_name \in DOMAIN failed_loads
    /\ last.config.service_name \notin DOMAIN loaded_routers
    /\ Attached(app_routers, last.config.service_name) = 1
    /\ Mounts(router_configs, last.config.service_name) = 1

(***************************************************************************)
(* Properties of the gateway configuration.                                *)
(***************************************************************************)
\* The gateway section of the file as load_config reads it.
FileGateway == load_config(ConfigFile).gateway.dict

\* C21: gateway overrides.  A read of the gateway config that returns gives,
\* for host, port and debug, the value of the variable when it is set (the port
\* as an integer, debug as a boolean) and the file's value when it is not, and
\* every other key as in the file.
C21_GatewayOverrides ==
    ( m_last.op = "get_gateway_config" /\ ~m_last.raised )
    => /\ m_last.ret["host"]
            = IF N_GATEWAY_HOST \in DOMAIN environ
              THEN PyStr(environ[N_GATEWAY_HOST])
              ELSE DictGet(FileGateway, "host", PyStr(H_any))
       /\ m_last.ret["port"]
            = IF N_GATEWAY_PORT \in DOMAIN environ
              THEN ParseInt(environ[N_GATEWAY_PORT]).value
              ELSE DictGet(FileGateway, "port", PyInt(8000))
       /\ IF N_GATEWAY_DEBUG \in DOMAIN environ
          THEN /\ m_last.ret["debug"].type = "bool"
               /\ Lower(environ[N_GATEWAY_DEBUG]) = E_true => m_last.ret["debug"].b
               /\ Lower(environ[N_GATEWAY_DEBUG]) = E_false => ~m_last.ret["debug"].b
          ELSE m_last.ret["debug"] = DictGet(FileGateway, "debug", PyBool(FALSE))
       /\ \A key \in DOMAIN FileGateway \ { "host", "port", "debug" } :
              /\ key \in DOMAIN m_last.ret
              /\ m_last.ret[key] = FileGateway[key]
       /\ DOMAIN m_last.ret \subseteq DOMAIN FileGateway \cup { "host", "port", "debug" }

(***************************************************************************)
(* Properties of the loader under two threads.                             *)
(***************************************************************************)
\* C22: atomic registry update.  A status read taken while reload_router is
\* reloading the service read sees the service as it was when the reload began
\* or as a finished reload leaves it, mounted only or failed only: never absent
\* from both maps, nor in both, unless it was so before the reload.
C22_AtomicReload ==
    ( seen.during # "idle" /\ seen.service = seen.reloading )
    => seen.membership \in { seen.pre, << TRUE, FALSE >>, << FALSE, TRUE >> }

(***************************************************************************)
(* Properties of one load attempt.                                         *)
(***************************************************************************)
\* The unit cannot be loaded or raises while it is initialized, lacks the named
\* attribute, or exports an object the filter cannot read.
AttemptFails(unit, config) ==
    \/ unit.load \in { "import_error", "no_attr" }
    \/ /\ Truthy(config.include_endpoints) \/ Truthy(config.exclude_endpoints)
       /\ ~HasRoutes(unit.obj)

C24_PassThroughCopy ==
    ( /\ last.op \in LoadOps
      /\ ~last.raised
      /\ last.unit.load = "ok"
      /\ last.unit.obj.kind = "APIRouter"
      /\ last.config.include_endpoints.is_none
      /\ last.config.exclude_endpoints.is_none
      /\ last.op = "load_router_from_path" \/ last.ret = "True" )
    => /\ last.config.service_name \in DOMAIN loaded_routers
       /\ loaded_routers[last.config.service_name].routes = last.unit.obj.routes
       /\ loaded_routers[last.config.service_name].src # "original"
       /\ last.op # "load_router_from_path"
          => /\ app_routers # << >>
             /\ app_routers[Len(app_routers)].router
                  = loaded_routers[last.config.service_name]

\* C25: a configuration load is never fatal.  After load_config or
\* reload_config on a missing, unreadable or malformed file nothing was raised
\* and the configuration in memory is the built-in default, whatever was loaded
\* before.
C25_LoadNeverFatal ==
    ( /\ m_last.op \in { "load_config", "reload_config" }
      /\ file_state \in { "missing", "unreadable", "invalid" } )
    => /\ ~m_last.raised
       /\ gateway_data
            = Section([host |-> PyStr(H_any), port |-> PyInt(8000),
                       debug |-> PyBool(TRUE), title |-> PyStr(T_gateway),
                       version |-> PyStr(V_100)])
       /\ config_data = EmptyDict

\* A running loader has reloaded a file that is no YAML.
C25_Witness ==
    /\ m_last.op = "reload_config"
    /\ file_state = "invalid"
    /\ calls >= 2
    /\ gateway_data.present
    /\ gateway_data.dict["title"] = PyStr(T_gateway)

\* C26: the reload permission is fixed at startup.  No status query and no
\* change of the environment after setup_components changes whether a reload
\* request is permitted.
C26_PermissionFixed ==
    [][ GatewayDebug' = GatewayDebug ]_vars

(***************************************************************************)
(* Properties of setup_service_config and of get_service_config.           *)
(***************************************************************************)
\* This step is one call of setup_service_config.
SetupStep == m_last'.op = "setup_service_config" /\ calls' = calls + 1

\* C27: setup_service_config is idempotent.  For file values that are strings,
\* booleans, integers, floats or null, a call right after a call for the same
\* service returns what that call returned, and a read of the service's
\* config returns after the call what it would have returned before it.
C27_SetupIdempotent ==
    [][ ( /\ SetupStep
          /\ \A n \in DOMAIN config_file : \A key \in DOMAIN config_file[n] :
                 config_file[n][key].type
                     \in { "str", "bool", "int", "float", "NoneType" } )
        => /\ ( m_last.op = "setup_service_config" /\ m_last.name = m_last'.name )
              => m_last'.ret = m_last.ret
           /\ get_service_config(config_data', environ', m_last'.name).ret
                = get_service_config(config_data, environ, m_last'.name).ret ]_vars

(***************************************************************************)
(* Properties of empty include and exclude sets.                           *)
(***************************************************************************)
\* An empty set taken as an absent one.
EmptyAsAbsent(opt) == IF ~opt.is_none /\ opt.set = {} THEN NoneSet ELSE opt

\* C28: an include or exclude set that is present but empty behaves as an
\* absent one.  The filtered collection is the one the filter gives with every
\* empty set made absent; with an empty include set and no exclude set it holds
\* every route of the original; and with both sets empty a load records the
\* object the unit exports, as it does with both absent.
C28_EmptyAsAbsent ==
    f_result.called =>
        /\ f_result.new_routes
             = filter_router_endpoints(
                   f_routes,
                   RouterConfig(f_config.service_name,
                                EmptyAsAbsent(f_config.include_endpoints),
                                EmptyAsAbsent(f_config.exclude_endpoints))).new_routes
        /\ ( f_config.include_endpoints = Some({}) /\ f_config.exclude_endpoints.is_none )
           => f_result.new_routes = f_routes
        /\ ( /\ f_config.include_endpoints = Some({})
             /\ f_config.exclude_endpoints = Some({})
             /\ last.op \in { "load_router", "reload_router" } )
           => /\ loaded_routers[f_config.service_name].src = "original"
              /\ loaded_routers[f_config.service_name].routes = f_routes

\* The filter has run with an empty include set and no exclude set on a
\* collection of several routes.
C28_Witness ==
    /\ f_result.called
    /\ f_config.include_endpoints = Some({})
    /\ f_config.exclude_endpoints.is_none
    /\ Len(f_routes) >= 2
    /\ f_result.new_routes = f_routes

\* The keys the file has for a service.
FileKeys(service_name) ==
    IF service_name \in DOMAIN config_file THEN DOMAIN config_file[service_name]
    ELSE {}

\* C29: overrides never add or remove keys.  Whatever the environment, a read
\* of a service's config has exactly the keys of the file's section for the
\* service, none for a service that is not in the file; a read of all configs
\* has exactly the file's services with their keys; and the loaded
\* configuration keeps the file's services and keys.
C29_KeysAsInFile ==
    /\ c_last.op = "get_service_config"
       => DOMAIN c_last.ret = FileKeys(c_last.service)
    /\ c_last.op = "get_all_service_configs"
       => /\ DOMAIN c_last.ret = DOMAIN config_file
          /\ \A n \in DOMAIN c_last.ret : DOMAIN c_last.ret[n] = FileKeys(n)
    /\ DOMAIN config_data = DOMAIN config_file
    /\ \A n \in DOMAIN config_data : DOMAIN config_data[n] = FileKeys(n)

\* A service has been read while a key of the file and a key that is not in the
\* file were overridden.
C29_Witness ==
    /\ c_last.op = "get_service_config"
    /\ c_last.service = S_svc
    /\ { EnvKey(S_svc, K_timeout), EnvKey(S_svc, K_url) } \subseteq DOMAIN environ
    /\ DOMAIN c_last.ret = { K_timeout }
    /\ c_last.ret[K_timeout] = PyInt(45)

\* C30: get_gateway_config returns a result for every file content and every
\* environment: the call does not raise, the returned port is an integer and
\* the returned debug is a boolean.
C30_GatewayReadTotal ==
    m_last.op = "get_gateway_config"
        => /\ ~m_last.raised
           /\ "port" \in DOMAIN m_last.ret
           /\ m_last.ret["port"].type = "int"
           /\ "debug" \in DOMAIN m_last.ret
           /\ m_last.ret["debug"].type = "bool"
====
